---- MODULE Spec2Model ----
(***************************************************************************)
(* A model of the yagcl JSON source (package yagcl_json, src/json.go):     *)
(* the source configuration (Bytes, String, Path, Reader, Must), source    *)
(* verification, byte acquisition and the recursive struct binder.         *)
(*                                                                         *)
(* Go strings that the code takes apart (struct tags, keys, raw JSON       *)
(* bytes) are sequences of one-character strings.  Go values are records   *)
(* with a field k; a pointer carries the address of its allocation, so     *)
(* that a fresh allocation differs from a pointer that was there before.   *)
(* Pointers are modelled as trees: two fields of a record never share a    *)
(* pointee.                                                                *)
(***************************************************************************)
EXTENDS Integers, Sequences, FiniteSets, TLC

VARIABLES
    must,       \* jsonSourceImpl.must
    path,       \* jsonSourceImpl.path
    bytes,      \* jsonSourceImpl.bytes
    reader,     \* jsonSourceImpl.reader
    called,     \* the setup methods whose last call gave a non-empty argument
    confType,   \* the type of the configuration struct handed to Parse
    document,   \* the JSON document the byte sources of this run hold
    conf,       \* the caller's configuration struct (the target record)
    confBefore, \* the target record as it was when the last Parse started
    calls,      \* number of Parse calls made
    result,     \* what the last Parse call returned
    tasks       \* the Parse calls of the two goroutines that share the source

vars == <<must, path, bytes, reader, called, confType, document, conf,
          confBefore, calls, result, tasks>>

-----------------------------------------------------------------------------
(* Bounds of the model. *)

\* Largest indirection depth (number of '*') of a field type.
MaxPtrDepth == 2

\* Number of Parse calls in one behaviour.
MaxParseCalls == 1

-----------------------------------------------------------------------------
(* Strings *)

\* strings.Split(key, ",")[0]: the text before the first comma.
RECURSIVE FirstSegment(_)
FirstSegment(str) ==
    IF str = <<>> \/ Head(str) = ","
    THEN <<>>
    ELSE <<Head(str)>> \o FirstSegment(Tail(str))

\* Simple case folding of one character, as strings.EqualFold applies it.
FoldChar(c) ==
    CASE c = "T" -> "t"
      [] c = "R" -> "r"
      [] c = "U" -> "u"
      [] c = "E" -> "e"
      [] OTHER -> c

\* strings.EqualFold
EqualFold(a, b) ==
    /\ Len(a) = Len(b)
    /\ \A i \in 1..Len(a) : FoldChar(a[i]) = FoldChar(b[i])

-----------------------------------------------------------------------------
(* Struct types (reflect.Type of the configuration struct) *)

\* A struct tag: the values of its json, key and ignore entries ("" if unset).
Tag(json, key, ignore) == [json |-> json, key |-> key, ignore |-> ignore]

\* The decode hooks of a type: for json.Unmarshaler (UnmarshalJSON) and for
\* encoding.TextUnmarshaler (UnmarshalText), "none" if the type has no such
\* method, else what the method does: "store" keeps the bytes it is given,
\* "fail" returns an error.
Hooks(json, text) == [json |-> json, text |-> text]
NoHooks == Hooks("none", "none")

\* reflect.StructField: name, exportedness, tag and type.  The type is depth
\* pointers over a kind; elem lists the fields when the kind is "struct";
\* hook tells the decode hooks of the type behind the pointers.
FieldDecl(name, exported, tag, depth, kind, elem) ==
    [name |-> name, exported |-> exported, tag |-> tag, depth |-> depth,
     kind |-> kind, elem |-> elem, hook |-> NoHooks]

\* The field with a type that has decode hooks.
WithHooks(field, hooks) == [field EXCEPT !.hook = hooks]

KeyOnly(key) == Tag(<<>>, key, <<>>)

\* Tags tried on FieldA: key:"a" / json:"a" / json:"a,o" key:"b" /
\* json:"b" key:"a" / key:"a,x" / no tag / json:",o" key:"a" /
\* key:"a" ignore:"true" / ignore:"TRUE" / ignore:"True" json:"a" /
\* key:"a" ignore:"false".
TagVariants ==
    { KeyOnly(<<"a">>),
      Tag(<<"a">>, <<>>, <<>>),
      Tag(<<"a", ",", "o">>, <<"b">>, <<>>),
      Tag(<<"b">>, <<"a">>, <<>>),
      KeyOnly(<<"a", ",", "x">>),
      Tag(<<>>, <<>>, <<>>),
      Tag(<<",", "o">>, <<"a">>, <<>>),
      Tag(<<>>, <<"a">>, <<"t", "r", "u", "e">>),
      Tag(<<>>, <<>>, <<"T", "R", "U", "E">>),
      Tag(<<"a">>, <<>>, <<"T", "r", "u", "e">>),
      Tag(<<>>, <<"a">>, <<"f", "a", "l", "s", "e">>) }

StringA == FieldDecl("FieldA", TRUE, KeyOnly(<<"a">>), 0, "string", <<>>)
StringB == FieldDecl("FieldB", TRUE, KeyOnly(<<"b">>), 0, "string", <<>>)
StringD == FieldDecl("FieldD", TRUE, KeyOnly(<<"d">>), 0, "string", <<>>)

\* struct { FieldA string <tag>; FieldB string `key:"b"` }, FieldA exported
\* or not.
TaggedTypes ==
    { <<FieldDecl("FieldA", e, t, 0, "string", <<>>), StringB>> :
        e \in BOOLEAN, t \in TagVariants }

\* struct { FieldA <depth pointers to string, int or bool> `key:"a"`;
\*          FieldB string `key:"b"` }
PointerTypes ==
    { <<FieldDecl("FieldA", TRUE, KeyOnly(<<"a">>), d, k, <<>>), StringB>> :
        d \in 0..MaxPtrDepth, k \in {"string", "int", "bool"} }

\* The first field of the nested struct: string or int, plain or behind one
\* pointer, keyed "c"; or untagged; or ignored.
SubFieldC ==
    { FieldDecl("FieldC", TRUE, KeyOnly(<<"c">>), d, k, <<>>) :
        d \in 0..1, k \in {"string", "int"} }
    \cup { FieldDecl("FieldC", TRUE, Tag(<<>>, <<>>, <<>>), 0, "string", <<>>),
           FieldDecl("FieldC", TRUE, Tag(<<>>, <<"c">>, <<"t", "r", "u", "e">>),
                     0, "string", <<>>) }

\* struct { FieldA string `key:"a"`;
\*          FieldB <depth pointers to> struct { FieldC ...; FieldD string `key:"d"` } `key:"b"` }
NestedTypes ==
    { <<StringA,
        FieldDecl("FieldB", TRUE, KeyOnly(<<"b">>), d, "struct", <<c, StringD>>)>> :
        d \in 0..MaxPtrDepth, c \in SubFieldC }

\* struct { FieldB <depth pointers to> struct { FieldC <string or int> `key:"c"`;
\*          FieldD string `key:"d"` } `key:"b"`; FieldA string `key:"a"` }: the
\* nested struct comes first.
NestedFirstTypes ==
    { <<FieldDecl("FieldB", TRUE, KeyOnly(<<"b">>), d, "struct",
                  <<FieldDecl("FieldC", TRUE, KeyOnly(<<"c">>), 0, k, <<>>),
                    StringD>>),
        StringA>> :
        d \in 0..1, k \in {"string", "int"} }

\* struct { FieldA <string or int> `key:"a"`; FieldB string }: the second
\* field has no key.
UntaggedTypes ==
    { <<FieldDecl("FieldA", TRUE, KeyOnly(<<"a">>), 0, k, <<>>),
        FieldDecl("FieldB", TRUE, Tag(<<>>, <<>>, <<>>), 0, "string", <<>>)>> :
        k \in {"string", "int"} }

\* The kinds of FieldE in the structs that try one scalar kind each.
ScalarKinds ==
    {"bool", "int8", "uint8", "int16", "int64", "duration", "complex64",
     "complex128"}

\* struct { FieldE <depth pointers to a scalar kind> `key:"e"`;
\*          FieldB string `key:"b"` }
ScalarTypes ==
    { <<FieldDecl("FieldE", TRUE, KeyOnly(<<"e">>), d, k, <<>>), StringB>> :
        d \in 0..MaxPtrDepth, k \in ScalarKinds }

\* struct { FieldA string `key:"a"`; FieldE <complex> `key:"e"` }: the
\* field of a complex type comes second.
ComplexLastTypes ==
    { <<StringA, FieldDecl("FieldE", TRUE, KeyOnly(<<"e">>), 0, k, <<>>)>> :
        k \in {"complex64", "complex128"} }

\* The hooks tried: a JSON hook, a text hook, or both, storing or failing.
HookVariants ==
    { Hooks("store", "none"), Hooks("fail", "none"), Hooks("none", "store"),
      Hooks("none", "fail"), Hooks("store", "fail") }

\* struct { FieldE <depth pointers to a type with hooks, of kind string,
\*          int64 or struct { FieldD string `key:"d"` }> `key:"e"`;
\*          FieldB string `key:"b"` }
HookTypes ==
    { <<WithHooks(FieldDecl("FieldE", TRUE, KeyOnly(<<"e">>), d, k,
                            IF k = "struct" THEN <<StringD>> ELSE <<>>), h),
        StringB>> :
        d \in 0..MaxPtrDepth, k \in {"string", "int64", "struct"},
        h \in HookVariants }

\* struct { FieldN struct { FieldB struct { FieldB struct {
\*              FieldB struct { FieldC <string or int> `key:"c"` } `key:"b"`;
\*              FieldD string `key:"d"` } `key:"b"` } `key:"b"` } `key:"n"`;
\*          FieldA string `key:"a"` }: structs four deep, the third with a
\* field after its nested struct.
DeepTypes ==
    { <<FieldDecl("FieldN", TRUE, KeyOnly(<<"n">>), 0, "struct",
          << FieldDecl("FieldB", TRUE, KeyOnly(<<"b">>), 0, "struct",
               << FieldDecl("FieldB", TRUE, KeyOnly(<<"b">>), 0, "struct",
                    << FieldDecl("FieldB", TRUE, KeyOnly(<<"b">>), 0, "struct",
                         << FieldDecl("FieldC", TRUE, KeyOnly(<<"c">>), 0, k,
                                      <<>>) >>),
                       StringD >>) >>) >>),
        StringA>> :
        k \in {"string", "int"} }

StructTypes ==
    TaggedTypes \cup PointerTypes \cup NestedTypes \cup NestedFirstTypes
    \cup DeepTypes \cup UntaggedTypes
    \cup ScalarTypes \cup ComplexLastTypes \cup HookTypes

-----------------------------------------------------------------------------
(* Go values *)

NilV == [k |-> "nil"]
PtrV(addr, elem) == [k |-> "ptr", addr |-> addr, elem |-> elem]
StringV(v) == [k |-> "string", v |-> v]
IntV(v) == [k |-> "int", v |-> v]
BoolV(v) == [k |-> "bool", v |-> v]
StructV(f) == [k |-> "struct", f |-> f]
\* time.Duration: whole seconds and the nanoseconds beyond them.
DurationV(sec, ns) == [k |-> "duration", sec |-> sec, ns |-> ns]
\* A complex number.
ComplexV(re, im) == [k |-> "complex", re |-> re, im |-> im]
\* A value of a type with a decode hook, as the hook left it: which hook ran
\* and the bytes it was given.
CustomV(by, data) == [k |-> "custom", by |-> by, data |-> data]

\* The integer kinds with their bit width and signedness.
IntKinds == {"int", "int8", "int16", "int64", "uint8"}

\* The zero value of a field's type (reflect.Zero).
RECURSIVE ZeroOf(_)
ZeroOf(field) ==
    IF field.depth > 0 THEN NilV
    ELSE CASE field.kind = "string" -> StringV(<<>>)
           [] field.kind \in IntKinds -> IntV(0)
           [] field.kind = "duration" -> DurationV(0, 0)
           [] field.kind \in {"complex64", "complex128"} -> ComplexV(0, 0)
           [] field.kind = "bool" -> BoolV(FALSE)
           [] field.kind = "struct" ->
                StructV([i \in 1..Len(field.elem) |-> ZeroOf(field.elem[i])])

\* reflect.Value.IsZero
RECURSIVE IsZero(_)
IsZero(v) ==
    CASE v.k = "nil" -> TRUE
      [] v.k = "ptr" -> FALSE
      [] v.k = "string" -> v.v = <<>>
      [] v.k = "int" -> v.v = 0
      [] v.k = "bool" -> v.v = FALSE
      [] v.k = "duration" -> v.sec = 0 /\ v.ns = 0
      [] v.k = "complex" -> v.re = 0 /\ v.im = 0
      [] v.k = "custom" -> FALSE
      [] v.k = "struct" ->
            "by" \notin DOMAIN v /\ \A i \in 1..Len(v.f) : IsZero(v.f[i])

\* The addresses of the allocations reachable from a value.
RECURSIVE Addrs(_)
Addrs(v) ==
    CASE v.k = "ptr" -> {v.addr} \cup Addrs(v.elem)
      [] v.k = "struct" -> UNION { Addrs(v.f[i]) : i \in 1..Len(v.f) }
      [] OTHER -> {}

SetMax(S) == IF S = {} THEN 0 ELSE CHOOSE m \in S : \A x \in S : x <= m

\* A chain of n pointers, allocated at base+1 .. base+n, around v.
RECURSIVE ChainOver(_, _, _)
ChainOver(v, n, base) ==
    IF n = 0 THEN v ELSE PtrV(base + n, ChainOver(v, n - 1, base))

\* A non-zero value of a leaf kind, as an earlier source may have left it.
OldLeaf(kind) ==
    CASE kind = "string" -> StringV(<<"o">>)
      [] kind \in IntKinds -> IntV(5)
      [] kind = "duration" -> DurationV(5, 0)
      [] kind \in {"complex64", "complex128"} -> ComplexV(5, 0)
      [] kind = "bool" -> BoolV(TRUE)

\* The values a field may hold when Parse is called: for the element type,
\* zero or non-zero (a struct: every combination of its fields' values);
\* around it, a nil pointer, a full chain of pointers, or (from depth 2) a
\* pointer to a nil pointer.  The pointers of a field are allocated at
\* base+1 .. base+depth.
RECURSIVE FieldValues(_, _), TupleValues(_, _, _)
FieldValues(field, base) ==
    LET elems == IF field.kind = "struct"
                 THEN { StructV(t) : t \in TupleValues(field.elem, 1, base) }
                 ELSE { ZeroOf([field EXCEPT !.depth = 0]), OldLeaf(field.kind) }
    IN  IF field.depth = 0 THEN elems
        ELSE {NilV}
             \cup { ChainOver(e, field.depth, base) : e \in elems }
             \cup (IF field.depth >= 2 THEN { PtrV(base + field.depth, NilV) } ELSE {})

TupleValues(fields, i, base) ==
    IF i > Len(fields) THEN { <<>> }
    ELSE { <<v>> \o rest :
             v \in FieldValues(fields[i], 10 * (base + i)),
             rest \in TupleValues(fields, i + 1, base) }

\* The configuration structs a caller may hand to Parse for a struct type.
Records(T) == { StructV(t) : t \in TupleValues(T, 1, 0) }

-----------------------------------------------------------------------------
(* JSON documents and jsonparser.Get *)

\* A JSON node: coarse type (jsonparser.ValueType), the raw bytes Get returns
\* for it (a string without its quotes), and for an object its members.
JString(raw) == [t |-> "String", raw |-> raw, m |-> <<>>]
JNumber(raw) == [t |-> "Number", raw |-> raw, m |-> <<>>]
JBoolean(raw) == [t |-> "Boolean", raw |-> raw, m |-> <<>>]
JNull == [t |-> "Null", raw |-> <<"n", "u", "l", "l">>, m |-> <<>>]
\* A value that is no JSON value, such as an unquoted word.
JUnknown == [t |-> "Unknown", raw |-> <<"x">>, m |-> <<>>]
JArray == [t |-> "Array", raw |-> <<"[", "]">>, m |-> <<>>]
\* pairs: a set of <<key, node>>, the keys distinct.
JObject(pairs) ==
    [t |-> "Object", raw |-> <<"{", "}">>,
     m |-> [key \in { p[1] : p \in pairs } |->
              (CHOOSE p \in pairs : p[1] = key)[2]]]

\* The byte content of a source that was given none: a nil slice.
NoBytes == [t |-> "Nil", raw |-> <<>>, m |-> <<>>]
\* A byte slice that is there and has no bytes: []byte{}, []byte("").
EmptyBytes == [t |-> "Empty", raw |-> <<>>, m |-> <<>>]
\* len(b) > 0
NonEmpty(b) == b.t \notin {"Nil", "Empty"}

LeafNodes ==
    { JString(<<"x">>), JString(<<"7">>), JNumber(<<"7">>),
      JBoolean(<<"t", "r", "u", "e">>), JNull, JUnknown }

\* A member that is absent, or present with one of the nodes.
Member(key, nodes) == { {} } \cup { { <<key, n>> } : n \in nodes }

SubObjects ==
    { JObject(c \cup d) :
        c \in Member(<<"c">>, LeafNodes),
        d \in Member(<<"d">>, {JString(<<"y">>), JNumber(<<"7">>)}) }

\* Documents for the structs with plain fields: "a" absent or any leaf,
\* "b" and "a,x" absent or present.
FlatDocuments ==
    { JObject(a \cup b \cup ax) :
        a \in Member(<<"a">>, LeafNodes),
        b \in Member(<<"b">>, {JString(<<"x">>), JNumber(<<"7">>)}),
        ax \in Member(<<"a", ",", "x">>, {JString(<<"z">>)}) }

\* Documents for the structs with a nested struct under "b": "b" absent, a
\* leaf, an array, or an object with "c" and "d" absent or present.
NestedDocuments ==
    { JObject(a \cup b) :
        a \in Member(<<"a">>, {JString(<<"x">>), JUnknown}),
        b \in Member(<<"b">>, LeafNodes \cup {JArray} \cup SubObjects) }

\* Documents for the structs four deep: under "n", "b", "b" an object with
\* "b" absent, a string, or an object with "c" absent or present, and with
\* "d" absent or present; or no "n" at all.
DeepDocuments ==
    { JObject(n \cup a) :
        a \in Member(<<"a">>, {JString(<<"x">>)}),
        n \in { {} } \cup
          { { << <<"n">>, JObject({ << <<"b">>, JObject({ << <<"b">>,
                   JObject(b \cup d) >> }) >> }) >> } :
              b \in Member(<<"b">>,
                     { JString(<<"x">>) } \cup
                     { JObject(c) :
                         c \in Member(<<"c">>, { JString(<<"x">>),
                                  JNumber(<<"7">>), JUnknown }) }),
              d \in Member(<<"d">>, {JString(<<"y">>), JNumber(<<"7">>),
                                      JUnknown}) } }

\* Numerals at and around the limits of the 8 and 16 bit integer types.
Numerals ==
    { <<"0">>, <<"7">>, <<"-", "1">>, <<"1", ".", "5">>,
      <<"1", "2", "7">>, <<"1", "2", "8">>,
      <<"-", "1", "2", "8">>, <<"-", "1", "2", "9">>,
      <<"2", "5", "5">>, <<"2", "5", "6">>,
      <<"3", "2", "7", "6", "7">>, <<"3", "2", "7", "6", "8">>,
      <<"-", "3", "2", "7", "6", "8">>, <<"-", "3", "2", "7", "6", "9">> }

\* The nodes tried on a scalar field.
ScalarNodes ==
    { JNumber(n) : n \in Numerals }
    \cup { JString(<<"7">>), JString(<<"1", "0", "s">>), JString(<<"5", "m", "s">>),
           JString(<<"c", "h", "e", "e", "s", "e">>),
           JString(<<"t", "r", "u", "e">>),
           JBoolean(<<"t", "r", "u", "e">>), JBoolean(<<"f", "a", "l", "s", "e">>),
           JNull, JArray, JObject({}) }

\* The nodes tried on a field whose type has hooks; one string holds an
\* escape sequence.
HookNodes ==
    { JString(<<"x">>), JString(<<"7">>), JString(<<"a", "\\", "n", "b">>),
      JNumber(<<"7">>), JBoolean(<<"t", "r", "u", "e">>), JNull,
      JObject({}), JObject({ <<<<"d">>, JString(<<"y">>)>> }) }

\* The nodes tried on one field of the structs with FieldE.
NodesFor(field) ==
    IF field.hook # NoHooks THEN HookNodes
    ELSE IF field.kind = "string" THEN { JString(<<"x">>), JNumber(<<"7">>) }
    ELSE ScalarNodes

\* Documents for the structs with FieldE: the key of each of the two fields
\* absent or present with one of the nodes tried on it.
FieldDocuments(T) ==
    { JObject(f \cup g) :
        f \in Member(T[1].tag.key, NodesFor(T[1])),
        g \in Member(T[2].tag.key, NodesFor(T[2])) }

Documents(T) ==
    IF \E i \in 1..Len(T) : T[i].name = "FieldE" THEN FieldDocuments(T)
    ELSE IF \E i \in 1..Len(T) : T[i].name = "FieldN" THEN DeepDocuments
    ELSE IF \E i \in 1..Len(T) : T[i].kind = "struct"
    THEN NestedDocuments ELSE FlatDocuments

\* jsonparser.Get(bytes, jsonPath...): the node at the path, a value that
\* cannot be typed (an error), or jsonparser.KeyPathNotFoundError.
RECURSIVE Get(_, _)
Get(node, jsonPath) ==
    IF jsonPath = <<>>
    THEN [r |-> IF node.t = "Unknown" THEN "error" ELSE "found", node |-> node]
    ELSE IF node.t = "Object" /\ Head(jsonPath) \in DOMAIN node.m
         THEN Get(node.m[Head(jsonPath)], Tail(jsonPath))
         ELSE [r |-> "notfound", node |-> node]

-----------------------------------------------------------------------------
(* Errors *)

\* An error value: the sentinel it wraps (errors.Is), the JSON path and the
\* field name its message carries.  "nil" is no error; "panic" stands for a
\* call that does not return because the goroutine panics.
Error(e, jsonPath, field) == [e |-> e, path |-> jsonPath, field |-> field]
NoError == Error("nil", <<>>, "")
Panic(jsonPath, field) == Error("panic", jsonPath, field)

newUnmarshalError(jsonPath) == Error("ErrParseValue", jsonPath, "")
newJsonparserError(jsonPath) == Error("ErrParseValue", jsonPath, "")

-----------------------------------------------------------------------------
(* Source configuration, verification and byte acquisition *)

\* The jsonSourceImpl value the setup calls have built.
Source == [must |-> must, path |-> path, bytes |-> bytes, reader |-> reader]

\* No reader configured (s.reader == nil).
NilReader == [kind |-> "nil", closer |-> FALSE]

\* The readers a caller may configure: one that delivers the document, one
\* whose Read fails, one whose Read fails with an error wrapping
\* fs.ErrNotExist; each with or without a Close method.
Readers ==
    { [kind |-> kd, closer |-> c] : kd \in {"data", "fail", "notexist"}, c \in BOOLEAN }

\* os.ReadFile on the paths the model uses: an existing file that holds the
\* document, a directory, and a name that does not exist.
ReadFile(name, doc) ==
    CASE name = "test.json" -> [data |-> doc, err |-> "nil"]
      [] name = "./" -> [data |-> NoBytes, err |-> "EISDIR"]
      [] OTHER -> [data |-> NoBytes, err |-> "ErrNotExist"]

\* io.ReadAll on a reader.
ReadAll(rd, doc) ==
    CASE rd.kind = "data" -> [data |-> doc, err |-> "nil"]
      [] rd.kind = "notexist" -> [data |-> NoBytes, err |-> "ErrNotExist"]
      [] OTHER -> [data |-> NoBytes, err |-> "read failed"]

\* sourceNotFound, were every error of a read taken for a missing source.
sourceNotFound_anyError(err) == IF err # "nil" THEN "ErrSourceNotFound" ELSE err

\* sourceNotFound, were the not-exist error passed on as it is.
sourceNotFound_unconverted(err) == err

\* The deferred function of getBytes: a not-exist error becomes
\* yagcl.ErrSourceNotFound.
sourceNotFound(err) == IF err = "ErrNotExist" THEN "ErrSourceNotFound" ELSE err

\* getBytes, were the stream closed only after a read that succeeded.
getBytes_closeOnSuccess(s, doc) ==
    IF NonEmpty(s.bytes)
    THEN [data |-> s.bytes, err |-> "nil", io |-> <<>>]
    ELSE IF s.path # ""
    THEN [data |-> ReadFile(s.path, doc).data,
          err |-> sourceNotFound(ReadFile(s.path, doc).err), io |-> <<"ReadFile">>]
    ELSE IF s.reader # NilReader
    THEN [data |-> ReadAll(s.reader, doc).data,
          err |-> sourceNotFound(ReadAll(s.reader, doc).err),
          io |-> <<"ReadAll">>
                 \o (IF s.reader.closer /\ ReadAll(s.reader, doc).err = "nil"
                     THEN <<"Close">> ELSE <<>>)]
    ELSE [data |-> NoBytes, err |-> "verification process must have failed", io |-> <<>>]

\* jsonSourceImpl.getBytes: the bytes, the error, and the I/O it performed.
getBytes(s, doc) ==
    IF NonEmpty(s.bytes)
    THEN [data |-> s.bytes, err |-> "nil", io |-> <<>>]
    ELSE IF s.path # ""
    THEN LET f == ReadFile(s.path, doc)
         IN  [data |-> f.data, err |-> sourceNotFound(f.err), io |-> <<"ReadFile">>]
    ELSE IF s.reader # NilReader
    THEN LET f == ReadAll(s.reader, doc)
         IN  [data |-> f.data, err |-> sourceNotFound(f.err),
              io |-> <<"ReadAll">> \o (IF s.reader.closer THEN <<"Close">> ELSE <<>>)]
    ELSE [data |-> NoBytes, err |-> "verification process must have failed", io |-> <<>>]

\* The number of data sources verify counts.
\* dataSourcesCount, were byte content counted whenever it is not nil.
dataSourcesCount_notNil(s) ==
    (IF s.path # "" THEN 1 ELSE 0)
    + (IF s.bytes # NoBytes THEN 1 ELSE 0)
    + (IF s.reader # NilReader THEN 1 ELSE 0)

dataSourcesCount(s) ==
    (IF s.path # "" THEN 1 ELSE 0)
    + (IF NonEmpty(s.bytes) THEN 1 ELSE 0)
    + (IF s.reader # NilReader THEN 1 ELSE 0)

\* jsonSourceImpl.verify
verify(s) ==
    IF dataSourcesCount(s) = 0 THEN "ErrNoDataSourceSpecified"
    ELSE IF dataSourcesCount(s) > 1 THEN "ErrMultipleDataSourcesSpecified"
    ELSE "nil"

-----------------------------------------------------------------------------
(* Tag resolution *)

\* IncludeField, were the ignore marker compared letter by letter.
IncludeField_caseSensitive(structField) ==
    ~ ( \/ ~structField.exported
        \/ structField.tag.ignore = <<"t", "r", "u", "e">> )

\* parsingCompanion.IncludeField: unexported fields and fields tagged
\* ignore:"true" (in any letter case) are left out.
IncludeField(structField) ==
    ~ ( \/ ~structField.exported
        \/ EqualFold(structField.tag.ignore, <<"t", "r", "u", "e">>) )

\* parsingCompanion.ExtractFieldKey: the value of the fallback tag "key".
ExtractFieldKey(structField) == structField.tag.key

\* extractJSONKey, were a field without any tag given the empty key instead
\* of an error.
extractJSONKey_noError(structField) ==
    IF structField.tag.json # <<>>
    THEN [key |-> FirstSegment(structField.tag.json), err |-> NoError]
    ELSE [key |-> ExtractFieldKey(structField), err |-> NoError]

\* extractJSONKey, were the fallback tag looked up first.
extractJSONKey_fallbackFirst(structField) ==
    IF ExtractFieldKey(structField) # <<>>
    THEN [key |-> ExtractFieldKey(structField), err |-> NoError]
    ELSE IF structField.tag.json # <<>>
    THEN [key |-> FirstSegment(structField.tag.json), err |-> NoError]
    ELSE [key |-> <<>>,
          err |-> Error("ErrExportedFieldMissingKey", <<>>, structField.name)]

\* jsonSourceImpl.extractJSONKey
extractJSONKey(structField) ==
    IF structField.tag.json # <<>>
    THEN [key |-> FirstSegment(structField.tag.json), err |-> NoError]
    ELSE IF ExtractFieldKey(structField) # <<>>
    THEN [key |-> ExtractFieldKey(structField), err |-> NoError]
    ELSE [key |-> <<>>,
          err |-> Error("ErrExportedFieldMissingKey", <<>>, structField.name)]

-----------------------------------------------------------------------------
(* Decoding of one node *)

Digits == {"0", "1", "2", "3", "4", "5", "6", "7", "8", "9"}

DigitValue(c) ==
    CASE c = "0" -> 0 [] c = "1" -> 1 [] c = "2" -> 2 [] c = "3" -> 3
      [] c = "4" -> 4 [] c = "5" -> 5 [] c = "6" -> 6 [] c = "7" -> 7
      [] c = "8" -> 8 [] c = "9" -> 9

\* The number a sequence of digits denotes.
RECURSIVE Decimal(_)
Decimal(ds) ==
    IF ds = <<>> THEN 0
    ELSE 10 * Decimal(SubSeq(ds, 1, Len(ds) - 1)) + DigitValue(ds[Len(ds)])

\* A JSON integer numeral: an optional minus, then 0 or digits without a
\* leading zero.
IsIntLiteral(raw) ==
    LET ds == IF raw # <<>> /\ Head(raw) = "-" THEN Tail(raw) ELSE raw
    IN  /\ ds # <<>>
        /\ \A i \in 1..Len(ds) : ds[i] \in Digits
        /\ (Len(ds) > 1 => ds[1] # "0")

IntLiteral(raw) ==
    IF Head(raw) = "-" THEN 0 - Decimal(Tail(raw)) ELSE Decimal(raw)

\* The smallest and the largest value of an integer kind.  The numerals of
\* the documents lie far inside 64 bits, so int and int64 have no limit
\* here.
MinOf(kind) ==
    CASE kind = "int8" -> -128
      [] kind = "int16" -> -32768
      [] kind = "uint8" -> 0
MaxOf(kind) ==
    CASE kind = "int8" -> 127
      [] kind = "int16" -> 32767
      [] kind = "uint8" -> 255

\* strconv.ParseInt / ParseUint with the bit size of the kind accept the
\* numeral: no sign for an unsigned kind, the value within the limits.
InRange(kind, raw) ==
    IF kind \in {"int", "int64"} THEN TRUE
    ELSE /\ (kind = "uint8" => Head(raw) # "-")
         /\ IntLiteral(raw) >= MinOf(kind)
         /\ IntLiteral(raw) <= MaxOf(kind)

\* A number of nanoseconds as a time.Duration.
Nanoseconds(n) ==
    IF n >= 0 THEN DurationV(n \div 1000000000, n % 1000000000)
    ELSE DurationV(0 - ((0 - n) \div 1000000000), 0 - ((0 - n) % 1000000000))

\* The longest prefix of a string made of digits (of other characters).
RECURSIVE TakeWhile(_, _)
TakeWhile(str, digits) ==
    IF str = <<>> \/ ((Head(str) \in Digits) # digits) THEN <<>>
    ELSE <<Head(str)>> \o TakeWhile(Tail(str), digits)

\* The unit suffixes of time.ParseDuration (unitMap), without the micro
\* sign.
DurationUnits ==
    { <<"n", "s">>, <<"u", "s">>, <<"m", "s">>, <<"s">>, <<"m">>, <<"h">> }

\* n units as a duration.
DurationOf(n, unit) ==
    CASE unit = <<"n", "s">> -> Nanoseconds(n)
      [] unit = <<"u", "s">> -> Nanoseconds(n * 1000)
      [] unit = <<"m", "s">> -> DurationV(n \div 1000, (n % 1000) * 1000000)
      [] unit = <<"s">> -> DurationV(n, 0)
      [] unit = <<"m">> -> DurationV(n * 60, 0)
      [] unit = <<"h">> -> DurationV(n * 3600, 0)

\* The sum of two durations that are not negative.
DurationSum(a, b) ==
    DurationV(a.sec + b.sec + ((a.ns + b.ns) \div 1000000000),
              (a.ns + b.ns) % 1000000000)

\* The terms of a duration literal: whole number, unit, and so on.  (A
\* literal with a fraction is read by time.ParseDuration as well; none of
\* the documents has one.)
RECURSIVE DurationTerms(_)

\* One term, ds its digits and unit its suffix, before the terms rest.
DurationTerm(ds, unit, rest) ==
    IF ds = <<>> \/ unit \notin DurationUnits \/ ~rest.ok
    THEN [ok |-> FALSE, v |-> DurationV(0, 0)]
    ELSE [ok |-> TRUE, v |-> DurationSum(DurationOf(Decimal(ds), unit), rest.v)]

\* The terms of str once the digits ds and the suffix unit are read.
DurationAfterUnit(str, ds, unit) ==
    DurationTerm(ds, unit,
                 DurationTerms(SubSeq(str, Len(ds) + Len(unit) + 1, Len(str))))

\* The terms of str once the digits ds are read.
DurationAfterDigits(str, ds) ==
    DurationAfterUnit(str, ds,
                      TakeWhile(SubSeq(str, Len(ds) + 1, Len(str)), FALSE))

DurationTerms(str) ==
    IF str = <<>> THEN [ok |-> TRUE, v |-> DurationV(0, 0)]
    ELSE DurationAfterDigits(str, TakeWhile(str, TRUE))

\* A duration literal without its sign.
DurationBody(str) ==
    IF str # <<>> /\ Head(str) \in {"-", "+"} THEN Tail(str) ELSE str

\* The duration of a literal: neg whether it starts with "-", body what
\* follows the sign, t the terms of body.
DurationSigned(neg, body, t) ==
    IF body = <<"0">> THEN [ok |-> TRUE, v |-> DurationV(0, 0)]
    ELSE IF body = <<>> \/ ~t.ok THEN [ok |-> FALSE, v |-> DurationV(0, 0)]
    ELSE [ok |-> TRUE,
          v |-> IF neg THEN DurationV(0 - t.v.sec, 0 - t.v.ns) ELSE t.v]

\* time.ParseDuration: an optional sign, then "0" or a sequence of terms.
ParseDuration(str) ==
    DurationSigned(str # <<>> /\ Head(str) = "-", DurationBody(str),
                   DurationTerms(DurationBody(str)))

\* jsonparser.ParseString: the raw bytes with their escape sequences
\* resolved; a backslash followed by nothing or by an unknown character is
\* an error.
RECURSIVE Unescape(_)
Unescape(raw) ==
    IF raw = <<>> THEN [ok |-> TRUE, v |-> <<>>]
    ELSE IF Head(raw) # "\\"
    THEN LET rest == Unescape(Tail(raw))
         IN  [ok |-> rest.ok, v |-> <<Head(raw)>> \o rest.v]
    ELSE IF Len(raw) < 2 \/ raw[2] \notin {"\\", "\"", "/", "n", "t"}
    THEN [ok |-> FALSE, v |-> <<>>]
    ELSE LET rest == Unescape(SubSeq(raw, 3, Len(raw)))
             c == CASE raw[2] = "n" -> "\n" [] raw[2] = "t" -> "\t" [] OTHER -> raw[2]
         IN  [ok |-> rest.ok, v |-> <<c>> \o rest.v]

ParseString(raw) == Unescape(raw)

\* json.Unmarshal(valueBytes, &value), value holding a new pointer to the
\* field's element type: "ok" with the decoded value, "error", or "null"
\* when the bytes are the JSON null, which sets value to a nil interface.
Unmarshal(valueBytes, kind) ==
    IF valueBytes = <<"n", "u", "l", "l">> THEN [r |-> "null", v |-> NilV]
    ELSE CASE kind \in IntKinds ->
                IF IsIntLiteral(valueBytes) /\ InRange(kind, valueBytes)
                THEN [r |-> "ok", v |-> IntV(IntLiteral(valueBytes))]
                ELSE [r |-> "error", v |-> NilV]
           [] kind = "duration" ->
                IF IsIntLiteral(valueBytes)
                THEN [r |-> "ok", v |-> Nanoseconds(IntLiteral(valueBytes))]
                ELSE [r |-> "error", v |-> NilV]
           [] kind = "bool" ->
                IF valueBytes = <<"t", "r", "u", "e">> THEN [r |-> "ok", v |-> BoolV(TRUE)]
                ELSE IF valueBytes = <<"f", "a", "l", "s", "e">>
                THEN [r |-> "ok", v |-> BoolV(FALSE)]
                ELSE [r |-> "error", v |-> NilV]
           [] OTHER -> [r |-> "error", v |-> NilV]

-----------------------------------------------------------------------------
(* The JSON path, a []string.  A slice is a window on an array: arr is the  *)
(* array (0: none, the nil slice), len the segments in use.  The arrays     *)
(* live in a heap, a sequence of arrays, each as long as its capacity.      *)

\* parentJsonPath of the outermost call: nil
NilPath == [arr |-> 0, len |-> 0]

\* cap(jsonPath)
capOf(heap, jsonPath) == IF jsonPath.arr = 0 THEN 0 ELSE Len(heap[jsonPath.arr])

\* The segments a slice shows (jsonPath... and the %s of an error message).
readPath(heap, jsonPath) ==
    IF jsonPath.arr = 0 THEN <<>>
    ELSE SubSeq(heap[jsonPath.arr], 1, jsonPath.len)

\* The capacity append gives the new array when the old one is full: one
\* for the nil slice, else twice the old (string elements, small sizes).
growCap(oldCap) == IF oldCap = 0 THEN 1 ELSE 2 * oldCap

\* append(parentJsonPath, jsonKey): with room left the key is stored in the
\* parent's own array, after its last segment; else the segments are
\* copied to a new array.  The parent slice itself stays as it is.
appendPath(heap, parentJsonPath, jsonKey) ==
    IF parentJsonPath.len < capOf(heap, parentJsonPath)
    THEN [heap |-> [heap EXCEPT ![parentJsonPath.arr][parentJsonPath.len + 1] =
                                   jsonKey],
          path |-> [arr |-> parentJsonPath.arr, len |-> parentJsonPath.len + 1]]
    ELSE [heap |-> Append(heap,
                     [n \in 1..growCap(capOf(heap, parentJsonPath)) |->
                        IF n <= parentJsonPath.len
                        THEN readPath(heap, parentJsonPath)[n]
                        ELSE IF n = parentJsonPath.len + 1 THEN jsonKey
                        ELSE <<>>]),
          path |-> [arr |-> Len(heap) + 1, len |-> parentJsonPath.len + 1]]

\* subPath, were the recursive call handed the path of the enclosing struct.
subPath_parent(parentJsonPath, jsonPath) == parentJsonPath

\* The path handed to the recursive call of a struct field: the field's own.
subPath(parentJsonPath, jsonPath) == jsonPath

-----------------------------------------------------------------------------
(* The struct binder, jsonSourceImpl.parse *)

\* What one parse call did, in order.  op: "skip" (field left out), "nokey",
\* "notfound", "geterror", "found" (the lookups, with their path), "write"
\* (fieldValue.Set, with the value stored), "substruct" (the recursive call
\* of a struct field returned; flag: its hasAnySubStructFieldBeenSet, val:
\* the field after it).  slot: the indexes of the field from the root struct;
\* was, set: hasAnyFieldBeenSet of the call before and after the step.
Event(op, slot, jsonPath, val, flag, was, set) ==
    [op |-> op, slot |-> slot, path |-> jsonPath, val |-> val, flag |-> flag,
     was |-> was, set |-> set]

\* A step that leaves hasAnyFieldBeenSet alone.
Step(op, slot, jsonPath, acc) ==
    Event(op, slot, jsonPath, NilV, FALSE, acc.set, acc.set)

\* The state of a parse call: set is hasAnyFieldBeenSet, val the struct it
\* writes to, next the next free address, done whether it has returned,
\* heap the arrays of the paths built so far.
Logged(acc, e) == [acc EXCEPT !.log = Append(@, e)]
\* Return, were the error noted and the loop over the fields carried on.
Return_continues(acc, err) == [acc EXCEPT !.err = err]

\* return hasAnyFieldBeenSet, err: the call is over.
Return(acc, err) == [acc EXCEPT !.err = err, !.done = TRUE]

\* reflect.Indirect
Indirect(v) == IF v.k = "ptr" THEN v.elem ELSE v

\* wrap, were one pointer allocated however deep the field's type is.
wrap_single(parsed, depth, next) ==
    IF depth = 0 THEN parsed ELSE PtrV(next, parsed)

\* The chain of pointers built for a pointer field: depth new allocations,
\* the outermost at next, the innermost holding parsed.
RECURSIVE wrap(_, _, _)
wrap(parsed, depth, next) ==
    IF depth = 0 THEN parsed
    ELSE PtrV(next, wrap(parsed, depth - 1, next + 1))

\* assign, were the field set once to the value and once more to the value
\* behind its pointers.
assign_twice(acc, structField, slot, i, parsed) ==
    LET stored == wrap(parsed, structField.depth, acc.next)
    IN  [acc EXCEPT !.set = TRUE,
                    !.val.f[i] = stored,
                    !.next = @ + structField.depth,
                    !.log = @ \o << Event("write", slot, <<>>, parsed, TRUE,
                                         acc.set, TRUE),
                                   Event("write", slot, <<>>, stored, TRUE,
                                         TRUE, TRUE) >>]

\* The end of the loop body: mark the call, wrap the value, set the field.
assign(acc, structField, slot, i, parsed) ==
    LET stored == wrap(parsed, structField.depth, acc.next)
    IN  [acc EXCEPT !.set = TRUE,
                    !.val.f[i] = stored,
                    !.next = @ + structField.depth,
                    !.log = Append(@, Event("write", slot, <<>>, stored, TRUE,
                                            acc.set, TRUE))]

\* hookData, were the quotes of a string not put back.
hookData_raw(node) == node.raw

\* The bytes handed to UnmarshalJSON: jsonparser strips the quotes of a
\* string, so they are put back around a String node.
hookData(node) ==
    IF node.t = "String" THEN <<"\"">> \o node.raw \o <<"\"">> ELSE node.raw

\* What a hook that stores its input leaves in a new value of the field's
\* type.
hookResult(structField, by, data) ==
    IF structField.kind = "struct"
    THEN [k |-> "struct", by |-> by, data |-> data,
          f |-> ZeroOf([structField EXCEPT !.depth = 0]).f]
    ELSE CustomV(by, data)

\* The probe for custom unmarshalers: json.Unmarshaler first, with any
\* node; else encoding.TextUnmarshaler, with a String node only.  applied
\* is customUnmarshalApplied when no hook failed.
customUnmarshal(structField, node) ==
    IF structField.hook.json # "none"
    THEN [tried |-> TRUE, ok |-> structField.hook.json = "store",
          v |-> hookResult(structField, "json", hookData(node))]
    ELSE IF structField.hook.text # "none" /\ node.t = "String"
    THEN [tried |-> TRUE, ok |-> structField.hook.text = "store",
          v |-> hookResult(structField, "text", node.raw)]
    ELSE [tried |-> FALSE, ok |-> FALSE, v |-> NilV]

\* unsupportedKind, were complex128 missing from the case list.
unsupportedKind_only64(kind) == kind = "complex64"

\* case reflect.Complex64, reflect.Complex128
unsupportedKind(kind) == kind \in {"complex64", "complex128"}

\* fieldType.AssignableTo(reflect.TypeOf(time.Duration(0)))
isDuration(kind) == kind = "duration"

\* What the Int64 case makes of the outcome d of time.ParseDuration.
durationOutcome(structField, d) ==
    IF d.ok
    THEN [r |-> "ok", v |-> d.v, err |-> NoError]
    ELSE [r |-> "error", v |-> NilV,
          err |-> Error("ErrParseValue", <<>>, structField.name)]

\* case reflect.Int64: a String node for a duration type is a duration
\* literal; "fallthrough" if the default case is to run.
convertInt64(structField, node) ==
    IF node.t = "String" /\ ParseString(node.raw).ok
       /\ isDuration(structField.kind)
    THEN durationOutcome(structField, ParseDuration(ParseString(node.raw).v))
    ELSE [r |-> "fallthrough", v |-> NilV, err |-> NoError]

\* The switch on fieldType.Kind() for the kinds that are no struct.
convert(structField, node, jsonPath) ==
    IF unsupportedKind(structField.kind)
    THEN [r |-> "error", v |-> NilV,
          err |-> Error("ErrUnsupportedFieldType", <<>>, structField.name)]
    ELSE IF structField.kind \in {"int64", "duration"}
            /\ convertInt64(structField, node).r # "fallthrough"
    THEN convertInt64(structField, node)
    ELSE IF structField.kind = "string"
    THEN IF node.t # "String"
         THEN [r |-> "error", v |-> NilV,
               err |-> Error("ErrParseValue", <<>>, structField.name)]
         ELSE LET u == ParseString(node.raw)
              IN  IF u.ok
                  THEN [r |-> "ok", v |-> StringV(u.v), err |-> NoError]
                  ELSE [r |-> "error", v |-> NilV, err |-> newJsonparserError(jsonPath)]
    ELSE LET u == Unmarshal(node.raw, structField.kind)
         IN  CASE u.r = "ok" -> [r |-> "ok", v |-> u.v, err |-> NoError]
               [] u.r = "error" ->
                    [r |-> "error", v |-> NilV, err |-> newUnmarshalError(jsonPath)]
               [] u.r = "null" ->
                    \* Convert on the zero reflect.Value panics.
                    [r |-> "error", v |-> NilV,
                     err |-> Panic(jsonPath, structField.name)]

\* The struct the recursive call works on: a new one if the field is zero,
\* else what the field holds, with one pointer removed.
subStructValue(structField, fieldValue) ==
    IF IsZero(fieldValue)
    THEN ZeroOf([structField EXCEPT !.depth = 0])
    ELSE Indirect(fieldValue)

\* skipSubStruct, were the temporary struct used whatever the call reports.
skipSubStruct_never(hasAnySubStructFieldBeenSet) == FALSE

\* Whether the field is left alone after the recursive call.
skipSubStruct(hasAnySubStructFieldBeenSet) == ~hasAnySubStructFieldBeenSet

RECURSIVE parse(_, _, _, _, _, _, _, _)
RECURSIVE parseFields(_, _, _, _, _, _)
RECURSIVE parseField(_, _, _, _, _, _)
RECURSIVE parseLookup(_, _, _, _, _, _, _)
RECURSIVE parseStruct(_, _, _, _, _, _, _)

\* case reflect.Struct; the path of the "substruct" event is what the
\* field's slice shows once the recursive call is over.
parseStruct(data, parentJsonPath, jsonPath, structField, slot, i, acc) ==
    LET fieldValue == acc.val.f[i]
        structValue == subStructValue(structField, fieldValue)
        \* reflect.New(fieldType) takes an allocation
        next == IF IsZero(fieldValue) THEN acc.next + 1 ELSE acc.next
        sub == parse(data, subPath(parentJsonPath, jsonPath), structField.elem,
                     structValue, slot, next, acc.log, acc.heap)
        \* the recursive call writes to the field's own struct unless it
        \* works on a new one
        after == IF IsZero(fieldValue) THEN fieldValue
                 ELSE IF fieldValue.k = "ptr"
                 THEN [fieldValue EXCEPT !.elem = sub.val]
                 ELSE sub.val
        acc1 == [acc EXCEPT !.set = @ \/ sub.set,
                            !.val.f[i] = after,
                            !.next = sub.next,
                            !.heap = sub.heap,
                            !.log = Append(sub.log,
                                      Event("substruct", slot,
                                            readPath(sub.heap, jsonPath), after,
                                            sub.set, acc.set, acc.set \/ sub.set))]
    IN  IF sub.err # NoError THEN Return(acc1, sub.err)
        ELSE IF skipSubStruct(sub.set) THEN acc1
        ELSE assign(acc1, structField, slot, i, sub.val)

\* keyPathNotFound, were a missing key an error like any other lookup error.
keyPathNotFound_fails(acc, slot, jsonPath) ==
    Return(Logged(acc, Step("notfound", slot, jsonPath, acc)),
           newJsonparserError(jsonPath))

\* The lookup reported jsonparser.KeyPathNotFoundError: on to the next
\* field.
keyPathNotFound(acc, slot, jsonPath) ==
    Logged(acc, Step("notfound", slot, jsonPath, acc))

\* One iteration of the loop over the fields, from the lookup on.
\* appended: the slice append returned and the heap after it; jsonPath: the
\* segments that slice shows, as the lookup and the error messages read
\* them.
parseLookup(data, parentJsonPath, structField, slot, i, acc, appended) ==
    LET jsonPath == readPath(appended.heap, appended.path)
        acc1 == [acc EXCEPT !.heap = appended.heap]
        g == Get(data, jsonPath)
    IN  IF g.r = "notfound"
        THEN keyPathNotFound(acc1, slot, jsonPath)
        ELSE IF g.r = "error"
        THEN Return(Logged(acc1, Step("geterror", slot, jsonPath, acc)),
                    newJsonparserError(jsonPath))
        ELSE
        LET acc0 == Logged(acc1, Step("found", slot, jsonPath, acc))
            h == customUnmarshal(structField, g.node)
        IN  IF h.tried
            THEN IF h.ok THEN assign(acc0, structField, slot, i, h.v)
                 ELSE Return(acc0, newUnmarshalError(jsonPath))
            ELSE
            IF structField.kind = "struct"
            THEN parseStruct(data, parentJsonPath, appended.path, structField,
                             slot, i, acc0)
            ELSE LET c == convert(structField, g.node, jsonPath)
                 IN  IF c.r = "ok"
                     THEN assign(acc0, structField, slot, i, c.v)
                     ELSE Return(acc0, c.err)

\* One iteration of the loop over the fields.
parseField(data, parentJsonPath, structField, slot, i, acc) ==
    IF ~IncludeField(structField)
    THEN Logged(acc, Step("skip", slot, <<>>, acc))
    ELSE IF extractJSONKey(structField).err # NoError
    THEN Return(Logged(acc, Step("nokey", slot, <<>>, acc)),
                extractJSONKey(structField).err)
    ELSE parseLookup(data, parentJsonPath, structField, slot, i, acc,
                     appendPath(acc.heap, parentJsonPath,
                                extractJSONKey(structField).key))

parseFields(data, parentJsonPath, structType, slot, i, acc) ==
    IF i > Len(structType) THEN Return(acc, NoError)
    ELSE LET a == parseField(data, parentJsonPath, structType[i],
                             Append(slot, i), i, acc)
         IN  IF a.done THEN a
             ELSE parseFields(data, parentJsonPath, structType, slot, i + 1, a)

\* jsonSourceImpl.parse.  structValue.NumField() panics when the value is
\* no struct.
parse(data, parentJsonPath, structType, structValue, slot, next, log, heap) ==
    LET acc == [set |-> FALSE, err |-> NoError, done |-> FALSE,
                val |-> structValue, next |-> next, log |-> log, heap |-> heap]
    IN  IF structValue.k # "struct"
        THEN Return(acc, Panic(readPath(heap, parentJsonPath), ""))
        ELSE parseFields(data, parentJsonPath, structType, slot, 1, acc)

-----------------------------------------------------------------------------
(* Parse *)

\* parseResult, were the first result the binder's flag.
parseResult_anyFieldSet(r) == [loaded |-> r.set, err |-> r.err]

\* parseResult, were the first result true whenever the binder has run.
parseResult_bound(r) == [loaded |-> TRUE, err |-> r.err]

\* The two results of Parse once the binder has returned r.
parseResult(r) == [loaded |-> r.err = NoError, err |-> r.err]

\* What a Parse call comes to.  status: "returned" or "panicked"; stage: the
\* step it ended in; loaded, err: its two results; conf: the caller's struct
\* after it; set: the binder's hasAnyFieldBeenSet; log: the binder's events;
\* io: the reads and closes performed.
Outcome(status, stage, loaded, err, target, set, log, io) ==
    [status |-> status, stage |-> stage, loaded |-> loaded, err |-> err,
     conf |-> target, set |-> set, log |-> log, io |-> io]

\* jsonSourceImpl.Parse
parseOutcome(s, doc, structType, target) ==
    IF verify(s) # "nil"
    THEN Outcome("returned", "verify", FALSE, Error(verify(s), <<>>, ""),
                 target, FALSE, <<>>, <<>>)
    ELSE
    LET b == getBytes(s, doc)
    IN  IF b.err # "nil"
        THEN IF ~s.must /\ b.err = "ErrSourceNotFound"
             THEN Outcome("returned", "getBytes", FALSE, NoError,
                          target, FALSE, <<>>, b.io)
             ELSE Outcome("returned", "getBytes", FALSE, Error(b.err, <<>>, ""),
                          target, FALSE, <<>>, b.io)
        ELSE
        LET r == parse(b.data, NilPath, structType, target, <<>>,
                       SetMax(Addrs(target)) + 1, <<>>, <<>>)
        IN  Outcome(IF r.err.e = "panic" THEN "panicked" ELSE "returned",
                    "parse", parseResult(r).loaded, parseResult(r).err,
                    r.val, r.set, r.log, b.io)

-----------------------------------------------------------------------------
(* The state machine.  A source is constructed, configured by its setup    *)
(* calls and then handed, with the caller's struct, to Parse.              *)

\* The two goroutines that call Parse on one source.
Callers == {"one", "two"}

\* What the data of a call is when it is s.bytes itself, the buffer the
\* calls share, and no buffer of its own.
SharedBuffer == [t |-> "Shared", raw |-> <<>>, m |-> <<>>]

\* The binder state of a call that has not reached the binder.
NoAcc == [set |-> FALSE, err |-> NoError, done |-> FALSE, val |-> NilV,
          next |-> 0, log |-> <<>>, heap |-> <<>>]

NotRun == [status |-> "none", stage |-> "", loaded |-> FALSE, err |-> NoError,
           conf |-> NilV, set |-> FALSE, log |-> <<>>, io |-> <<>>]

\* A source that was given nothing, and a call that has not begun.
NoSource ==
    [must |-> FALSE, path |-> "", bytes |-> NoBytes, reader |-> NilReader]

NewTask == [pc |-> "idle", given |-> NoSource, target |-> NilV,
            data |-> NoBytes, io |-> <<>>, i |-> 0, acc |-> NoAcc,
            out |-> NotRun]

\* Source(): &jsonSourceImpl{}; the caller holds a struct of some type and
\* the world holds some document.
InitWith(types) ==
    /\ must = FALSE
    /\ path = ""
    /\ bytes = NoBytes
    /\ reader = NilReader
    /\ called = {}
    /\ confType \in types
    /\ document \in Documents(confType)
    /\ conf \in Records(confType)
    /\ confBefore = conf
    /\ calls = 0
    /\ result = NotRun
    /\ tasks = [c \in Callers |-> NewTask]

Init == InitWith(StructTypes)

Must ==
    /\ calls = 0
    /\ must' = TRUE
    /\ UNCHANGED <<tasks, path, bytes, reader, called, confType, document, conf,
                   confBefore, calls, result>>

Bytes(b) ==
    /\ calls = 0
    /\ bytes' = b
    /\ called' = IF NonEmpty(b) THEN called \cup {"Bytes"} ELSE called \ {"Bytes"}
    /\ UNCHANGED <<tasks, must, path, reader, confType, document, conf, confBefore,
                   calls, result>>

\* s.bytes = []byte(str)
String(str) ==
    /\ calls = 0
    /\ bytes' = str
    /\ called' = IF NonEmpty(str) THEN called \cup {"String"} ELSE called \ {"String"}
    /\ UNCHANGED <<tasks, must, path, reader, confType, document, conf, confBefore,
                   calls, result>>

Path(name) ==
    /\ calls = 0
    /\ path' = name
    /\ called' = IF name # "" THEN called \cup {"Path"} ELSE called \ {"Path"}
    /\ UNCHANGED <<tasks, must, bytes, reader, confType, document, conf, confBefore,
                   calls, result>>

Reader(rd) ==
    /\ calls = 0
    /\ reader' = rd
    /\ called' = IF rd # NilReader THEN called \cup {"Reader"} ELSE called \ {"Reader"}
    /\ UNCHANGED <<tasks, must, path, bytes, confType, document, conf, confBefore,
                   calls, result>>

Parse ==
    /\ calls < MaxParseCalls
    /\ LET out == parseOutcome(Source, document, confType, conf)
       IN  /\ result' = out
           /\ conf' = out.conf
    /\ confBefore' = conf
    /\ calls' = calls + 1
    /\ UNCHANGED <<tasks, must, path, bytes, reader, called, confType, document>>

\* Binding: the document is given as byte content.
Next ==
    \/ Bytes(document)
    \/ Parse

Spec == Init /\ [][Next]_vars

\* Source handling: every setup call, with an empty or a non-empty
\* argument, over one struct type.
SourceInit == InitWith({ <<StringA, StringB>> })

SourceNext ==
    \/ Must
    \/ \E b \in {NoBytes, EmptyBytes, document} : Bytes(b)
    \/ \E str \in {EmptyBytes, document} : String(str)
    \/ \E name \in {"", "test.json", "doesntexist.json", "./"} : Path(name)
    \/ \E rd \in Readers \cup {NilReader} : Reader(rd)
    \/ Parse

SourceSpec == SourceInit /\ [][SourceNext]_vars

-----------------------------------------------------------------------------
(* Two goroutines call Parse on one source, each with a struct of its own. *)
(* A call is a sequence of steps: verify, getBytes, one step per field of  *)
(* the struct, the return.  pc: "idle", "getBytes", "parse", "done",       *)
(* "crashed" (it panicked and took the program down), "killed" (the        *)
(* program went down under it); given: the source as it was when the call  *)
(* began; target: the struct it was handed; data: its bytes; i: the field  *)
(* the loop is at; acc: the binder's state; out: what it returned.         *)

\* A goroutine has panicked and nobody recovered: the program is over.
Crashed == \E c \in Callers : tasks[c].pc = "crashed"

\* The bytes a call works on: s.bytes, or what it read itself.
bufferOf(task, shared) == IF task.data = SharedBuffer THEN shared ELSE task.data

\* inputAfter, were the quotes for UnmarshalJSON put around the string
\* inside the input.
inputAfter_quotedInPlace(data, structField) ==
    IF /\ structField.hook.json # "none"
       /\ IncludeField(structField)
       /\ extractJSONKey(structField).err = NoError
       /\ Get(data, <<extractJSONKey(structField).key>>).r = "found"
       /\ Get(data, <<extractJSONKey(structField).key>>).node.t = "String"
    THEN [data EXCEPT !.m[extractJSONKey(structField).key].raw =
                          <<"\"">> \o @ \o <<"\"">>]
    ELSE data

\* The input after one iteration of the loop: as before.  The iteration
\* reads bytes and the valueBytes inside it; the quoted value handed to
\* UnmarshalJSON is built in a new slice.
inputAfter(data, structField) == data

\* The outcome of a call whose binder has ended in r.
boundOutcome(r, io) ==
    Outcome(IF r.err.e = "panic" THEN "panicked" ELSE "returned",
            "parse", parseResult(r).loaded, parseResult(r).err,
            r.val, r.set, r.log, io)

\* A call is over; if it panicked and the caller does not recover, the
\* program ends and with it the calls under way.
Finish(c, out, recovered) ==
    IF out.status = "panicked" /\ ~recovered
    THEN tasks' = [d \in Callers |->
                     IF d = c
                     THEN [tasks[c] EXCEPT !.pc = "crashed", !.out = out]
                     ELSE IF tasks[d].pc \in {"getBytes", "parse"}
                     THEN [tasks[d] EXCEPT !.pc = "killed"]
                     ELSE tasks[d]]
    ELSE tasks' = [tasks EXCEPT ![c].pc = "done", ![c].out = out]

\* Parse(parsingCompanion, configurationStruct) is called: verify.
TaskVerify(c, target) ==
    /\ ~Crashed
    /\ tasks[c].pc = "idle"
    /\ calls' = calls + 1
    /\ IF verify(Source) # "nil"
       THEN tasks' = [tasks EXCEPT
                ![c].given = Source, ![c].target = target, ![c].pc = "done",
                ![c].out = Outcome("returned", "verify", FALSE,
                                   Error(verify(Source), <<>>, ""),
                                   target, FALSE, <<>>, <<>>)]
       ELSE tasks' = [tasks EXCEPT
                ![c].given = Source, ![c].target = target,
                ![c].pc = "getBytes"]
    /\ UNCHANGED <<must, path, bytes, reader, called, confType, document,
                   conf, confBefore, result>>

\* getBytes, and what Parse does with its error.
TaskGetBytes(c) ==
    /\ ~Crashed
    /\ tasks[c].pc = "getBytes"
    /\ LET b == getBytes(Source, document)
           target == tasks[c].target
       IN  IF b.err # "nil"
           THEN tasks' = [tasks EXCEPT
                    ![c].pc = "done", ![c].io = b.io,
                    ![c].out =
                        IF ~must /\ b.err = "ErrSourceNotFound"
                        THEN Outcome("returned", "getBytes", FALSE, NoError,
                                     target, FALSE, <<>>, b.io)
                        ELSE Outcome("returned", "getBytes", FALSE,
                                     Error(b.err, <<>>, ""),
                                     target, FALSE, <<>>, b.io)]
           ELSE tasks' = [tasks EXCEPT
                    ![c].pc = "parse", ![c].io = b.io, ![c].i = 1,
                    ![c].data = IF NonEmpty(bytes) THEN SharedBuffer ELSE b.data,
                    ![c].acc = [NoAcc EXCEPT
                                  !.val = target,
                                  !.next = SetMax(Addrs(target)) + 1]]
    /\ UNCHANGED <<must, path, bytes, reader, called, confType, document,
                   conf, confBefore, calls, result>>

\* One iteration of the loop over the fields of the struct handed to Parse.
TaskField(c) ==
    /\ ~Crashed
    /\ tasks[c].pc = "parse"
    /\ ~tasks[c].acc.done
    /\ tasks[c].i <= Len(confType)
    /\ LET i == tasks[c].i
           data == bufferOf(tasks[c], bytes)
       IN  /\ tasks' = [tasks EXCEPT
                 ![c].acc = parseField(data, NilPath, confType[i], <<i>>, i,
                                       tasks[c].acc),
                 ![c].i = i + 1,
                 ![c].data = IF tasks[c].data = SharedBuffer THEN SharedBuffer
                             ELSE inputAfter(data, confType[i])]
           /\ bytes' = IF tasks[c].data = SharedBuffer
                       THEN inputAfter(data, confType[i]) ELSE bytes
    /\ UNCHANGED <<must, path, reader, called, confType, document,
                   conf, confBefore, calls, result>>

\* The binder is over, by an error, a panic or the end of the loop; Parse
\* returns, or the goroutine panics and the caller recovers or not.
TaskReturn(c, recovered) ==
    /\ ~Crashed
    /\ tasks[c].pc = "parse"
    /\ tasks[c].acc.done \/ tasks[c].i > Len(confType)
    /\ Finish(c, boundOutcome(IF tasks[c].acc.done THEN tasks[c].acc
                                ELSE Return(tasks[c].acc, NoError),
                              tasks[c].io),
              recovered)
    /\ UNCHANGED <<must, path, bytes, reader, called, confType, document,
                   conf, confBefore, calls, result>>

\* The struct types of the concurrent calls: an integer and a string, a
\* nested struct plain or behind two pointers, a string with a hook that
\* stores its input.
ConcTypes ==
    { T \in PointerTypes : T[1].depth = 0 /\ T[1].kind = "int" }
    \cup { T \in NestedTypes :
             /\ T[2].depth \in {0, 2}
             /\ T[2].elem[1] = FieldDecl("FieldC", TRUE, KeyOnly(<<"c">>), 0,
                                         "string", <<>>) }
    \cup { T \in HookTypes :
             /\ T[1].depth = 0 /\ T[1].kind = "string"
             /\ T[1].hook \in {Hooks("store", "none"), Hooks("none", "store")} }

ConcInit == InitWith(ConcTypes)

\* The source is set up with the document as its bytes or with a path, or
\* left without data; then the two goroutines call Parse, each with a
\* struct of its own that is empty or holds the values of conf.
ConcNext ==
    \/ Bytes(document)
    \/ Path("test.json")
    \/ \E c \in Callers :
          \/ \E target \in {conf, ZeroOf(FieldDecl("", TRUE, KeyOnly(<<>>), 0,
                                                   "struct", confType))} :
                TaskVerify(c, target)
          \/ TaskGetBytes(c)
          \/ TaskField(c)
          \/ \E recovered \in BOOLEAN : TaskReturn(c, recovered)

ConcSpec == ConcInit /\ [][ConcNext]_vars

-----------------------------------------------------------------------------
(* Vocabulary of the properties *)

Returned == result.status = "returned"
\* Parse got as far as the binder.
Bound == result.stage = "parse"
Log == result.log
Writes == { j \in 1..Len(Log) : Log[j].op = "write" }

\* The field declaration at a slot of a struct type.
RECURSIVE FieldAt(_, _)
FieldAt(structType, slot) ==
    IF Len(slot) = 1 THEN structType[slot[1]]
    ELSE FieldAt(structType[slot[1]].elem, Tail(slot))

\* The slots of a struct type, nested ones included.
RECURSIVE Slots(_)
Slots(structType) ==
    UNION { { <<i>> } \cup { <<i>> \o s : s \in Slots(structType[i].elem) } :
            i \in 1..Len(structType) }

\* What is behind all the pointers of a value; NilV if one of them is nil.
RECURSIVE Deref(_)
Deref(v) == IF v.k = "ptr" THEN Deref(v.elem) ELSE v

\* The value a slot holds in a struct; the zero value if the struct that
\* would hold it is not allocated.
RECURSIVE ValueAt(_, _, _)
ValueAt(structValue, structType, slot) ==
    IF Len(slot) = 1 THEN structValue.f[slot[1]]
    ELSE LET inner == Deref(structValue.f[slot[1]])
         IN  IF inner.k = "struct"
             THEN ValueAt(inner, structType[slot[1]].elem, Tail(slot))
             ELSE ZeroOf(FieldAt(structType, slot))

\* The slot of the struct that holds the field at a slot (<<>>: the root).
Parent(slot) == SubSeq(slot, 1, Len(slot) - 1)

\* The fields of the struct that holds the field at a slot.
Siblings(slot) ==
    IF Len(slot) = 1 THEN confType ELSE FieldAt(confType, Parent(slot)).elem

\* The slot declared right after a slot in the same struct.
NextSlot(slot) == [slot EXCEPT ![Len(slot)] = @ + 1]

\* The steps the binder took on a slot.
EventsAt(slot) == { j \in 1..Len(Log) : Log[j].slot = slot }

\* The first steps of an iteration of the loop over the fields.
Lookups == {"skip", "nokey", "notfound", "geterror", "found"}

-----------------------------------------------------------------------------
(* C1 *)

\* C1 as stated: when Parse returns no error, its first result is true if
\* and only if at least one field of the target was assigned.
C1_LoadedMirrorsAnyFieldSet ==
    (Returned /\ result.err = NoError) => (result.loaded <=> Writes # {})

\* C1, amended: the first result of Parse is true if and only if the binder
\* ran and returned no error, whether or not a field was assigned; a
\* document with none of the struct's keys yields (true, no error).
C1_LoadedIffBoundWithoutError ==
    Returned => (result.loaded <=> (Bound /\ result.err = NoError))

\* A document with none of the keys was bound: nothing assigned, loaded true.
C1_Witness ==
    /\ Returned /\ Bound /\ result.err = NoError
    /\ Writes = {}
    /\ result.loaded

-----------------------------------------------------------------------------
(* C2 *)

\* C2 as stated: Parse passes source verification only when exactly one of
\* Bytes, String, Path and Reader is configured; with none it returns the
\* no-data-source error, with two or more (any pair) the
\* multiple-data-sources error, loaded being false in both cases.
C2_ExactlyOneOfFourInputs ==
    Returned =>
        /\ Cardinality(called) = 0 =>
             (result.err.e = "ErrNoDataSourceSpecified" /\ ~result.loaded)
        /\ Cardinality(called) >= 2 =>
             (result.err.e = "ErrMultipleDataSourcesSpecified" /\ ~result.loaded)
        /\ Cardinality(called) = 1 =>
             result.err.e \notin {"ErrNoDataSourceSpecified",
                                  "ErrMultipleDataSourcesSpecified"}

-----------------------------------------------------------------------------
(* C3 *)

\* The one source that verification lets through names a file that does
\* not exist, or is a reader whose read reports a missing file.
SourceMissing ==
    /\ ~NonEmpty(bytes)
    /\ \/ path = "doesntexist.json" /\ reader = NilReader
       \/ path = "" /\ reader.kind = "notexist"

\* The one source that verification lets through delivers its bytes.
SourceFound ==
    \/ NonEmpty(bytes) /\ path = "" /\ reader = NilReader
    \/ ~NonEmpty(bytes) /\ path = "test.json" /\ reader = NilReader
    \/ ~NonEmpty(bytes) /\ path = "" /\ reader.kind = "data"

\* C3: when the source is not found, Parse returns (false, no error) and
\* leaves the target as it was if Must was not called, and (false,
\* source-not-found error) if it was; when the source is found, the result
\* and the target are the same with and without Must.
C3_MustDecidesSourceNotFound ==
    Returned =>
        /\ (SourceMissing /\ ~must) =>
             (~result.loaded /\ result.err = NoError /\ conf = confBefore)
        /\ (SourceMissing /\ must) =>
             (~result.loaded /\ result.err.e = "ErrSourceNotFound")
        /\ SourceFound =>
             result = parseOutcome([Source EXCEPT !.must = ~must], document,
                                   confType, confBefore)

\* Parse ran on a missing file without Must.
C3_Witness ==
    /\ Returned /\ SourceMissing /\ ~must
    /\ path = "doesntexist.json"
    /\ result.err = NoError /\ ~result.loaded

-----------------------------------------------------------------------------
(* C4 *)

\* C4: for every non-ignored field whose resolved path has no node in the
\* document, the binder does not fail at it, never writes it, leaves it as it
\* was before the call, and goes on with the field declared next (or, after
\* the last field of a nested struct, returns to the parent's field; after
\* the last field of the root, returns no error).
C4_NotFoundSkipsAndContinues ==
    \A j \in 1..Len(Log) :
        Log[j].op = "notfound" =>
            LET s == Log[j].slot
                last == s[Len(s)] = Len(Siblings(s))
            IN  /\ EventsAt(s) = {j}
                /\ ValueAt(conf, confType, s) = ValueAt(confBefore, confType, s)
                /\ Log[j].set = Log[j].was
                /\ j = Len(Log) =>
                      (Len(s) = 1 /\ last /\ Returned /\ result.err = NoError)
                /\ j < Len(Log) =>
                      IF last
                      THEN Len(s) > 1 /\ Log[j + 1].op = "substruct"
                           /\ Log[j + 1].slot = Parent(s)
                      ELSE Log[j + 1].op \in Lookups
                           /\ Log[j + 1].slot = NextSlot(s)

\* FieldA held a value and has no node; the binder went on and wrote FieldB.
C4_Witness ==
    /\ Returned /\ result.err = NoError
    /\ Len(Log) >= 2
    /\ Log[1].op = "notfound" /\ Log[1].slot = <<1>>
    /\ ~IsZero(confBefore.f[1]) /\ conf.f[1] = confBefore.f[1]
    /\ \E j \in Writes : Log[j].slot = <<2>>

-----------------------------------------------------------------------------
(* C5 *)

\* The word "true" in every letter case.
TrueSpellings ==
    { <<a, b, c, d>> : a \in {"t", "T"}, b \in {"r", "R"},
                       c \in {"u", "U"}, d \in {"e", "E"} }

\* A field the binder leaves out: unexported, or marked ignore:"true".
LeftOut(field) == ~field.exported \/ field.tag.ignore \in TrueSpellings

\* A usable field with no tag in the json nor in the key namespace.
UsableUntagged(field) ==
    ~LeftOut(field) /\ field.tag.json = <<>> /\ field.tag.key = <<>>

\* C5 as stated: binding a record that has a usable field with no json and
\* no key tag always fails with the missing-key error, whatever the
\* document contains.
C5_UntaggedAlwaysMissingKey ==
    (Returned /\ Bound /\ \E i \in 1..Len(confType) : UsableUntagged(confType[i]))
        => result.err.e = "ErrExportedFieldMissingKey"

\* C5, amended: the fields are bound in declaration order and the first
\* error ends the bind.  Once the binder reaches a usable field with no json
\* and no key tag, the bind fails there with the missing-key error, whatever
\* the document contains; binding a record that has such a field never
\* succeeds, and fails with another error only if a field declared before
\* it ended the bind first.
C5_UntaggedFailsWhenReached ==
    Bound =>
        \A s \in Slots(confType) :
            UsableUntagged(FieldAt(confType, s)) =>
                /\ \A j \in EventsAt(s) :
                      /\ Log[j].op = "nokey"
                      /\ \A k \in (j + 1)..Len(Log) :
                            /\ Log[k].op = "substruct"
                            /\ Len(Log[k].slot) < Len(s)
                            /\ Log[k].slot = SubSeq(s, 1, Len(Log[k].slot))
                      /\ Returned /\ ~result.loaded
                      /\ result.err.e = "ErrExportedFieldMissingKey"
                      /\ result.err.field = FieldAt(confType, s).name
                /\ Len(s) = 1 =>
                      \/ result.err.e = "ErrExportedFieldMissingKey"
                      \/ /\ result.err # NoError
                         /\ EventsAt(s) = {}
                         /\ Log # <<>>
                         /\ Log[Len(Log)].slot[1] < s[1]

\* FieldB has no tag; the document has "a", the key of FieldA, which was
\* assigned, and "b"; the bind failed with the missing-key error.
C5_Witness ==
    /\ Returned
    /\ UsableUntagged(confType[2])
    /\ {<<"a">>, <<"b">>} \subseteq DOMAIN document.m
    /\ \E j \in Writes : Log[j].slot = <<1>>
    /\ result.err.e = "ErrExportedFieldMissingKey"
    /\ result.err.field = "FieldB"

-----------------------------------------------------------------------------
(* C6 *)

\* C6: a field that is unexported, or marked ignore:"true" in any letter
\* case, is skipped entirely: the binder neither resolves its key (no
\* missing-key error, even without a key tag) nor looks up a node nor
\* writes it, its value after the call is its value before the call, even
\* when the document has a matching key, and the binder goes on after it.
C6_LeftOutFieldsUntouched ==
    Bound =>
        \A s \in Slots(confType) :
            LeftOut(FieldAt(confType, s)) =>
                /\ \A j \in EventsAt(s) :
                      /\ Log[j].op = "skip"
                      /\ Log[j].path = <<>>
                      /\ Log[j].set = Log[j].was
                      /\ j = Len(Log) => result.err = NoError
                /\ Cardinality(EventsAt(s)) <= 1
                /\ ValueAt(conf, confType, s) = ValueAt(confBefore, confType, s)
                /\ result.err.field # FieldAt(confType, s).name

\* FieldA is tagged json:"a" ignore:"True" and held a value; the document
\* has a string under "a"; the bind succeeded and FieldA is as it was.
C6_Witness ==
    /\ Returned /\ result.err = NoError
    /\ confType[1].exported
    /\ confType[1].tag = Tag(<<"a">>, <<>>, <<"T", "r", "u", "e">>)
    /\ <<"a">> \in DOMAIN document.m
    /\ document.m[<<"a">>].t = "String"
    /\ ~IsZero(confBefore.f[1])
    /\ conf.f[1] = confBefore.f[1]
    /\ Log[1].op = "skip"

-----------------------------------------------------------------------------
(* C7 *)

\* k is the text of str before its first comma.
IsFirstSegment(k, str) ==
    /\ Len(k) <= Len(str)
    /\ \A i \in 1..Len(k) : k[i] = str[i] /\ k[i] # ","
    /\ (Len(k) < Len(str) => str[Len(k) + 1] = ",")

\* The steps that looked up a node.
NodeLookups == { j \in 1..Len(Log) : Log[j].op \in {"notfound", "geterror", "found"} }

\* The key a lookup used: the last element of its path.
KeyOf(j) == Log[j].path[Len(Log[j].path)]

\* C7 as stated: the key of a field is taken from its json tag if present,
\* else from its key tag, and of the tag value only the text before the
\* first comma is the key.
C7_KeyIsFirstSegmentOfTag ==
    \A j \in NodeLookups :
        LET tag == FieldAt(confType, Log[j].slot).tag
        IN  IsFirstSegment(KeyOf(j), IF tag.json # <<>> THEN tag.json ELSE tag.key)

\* C7, amended: the key of a field is taken from its json tag if present,
\* else from its key tag; with both present the json tag wins.  Only of the
\* json tag is the text before the first comma the key; the value of the key
\* tag is used whole, commas included.
C7_JsonTagSegmentElseWholeKeyTag ==
    \A j \in NodeLookups :
        LET tag == FieldAt(confType, Log[j].slot).tag
        IN  /\ Len(Log[j].path) = Len(Log[j].slot)
            /\ IF tag.json # <<>>
               THEN IsFirstSegment(KeyOf(j), tag.json)
               ELSE KeyOf(j) = tag.key /\ tag.key # <<>>

\* FieldA is tagged json:"a,o" key:"b"; the document has "a" and "b"; the
\* node under "a" was looked up and assigned to FieldA.
C7_Witness ==
    /\ Returned /\ result.err = NoError
    /\ confType[1].tag = Tag(<<"a", ",", "o">>, <<"b">>, <<>>)
    /\ {<<"a">>, <<"b">>} \subseteq DOMAIN document.m
    /\ Log[1].op = "found" /\ Log[1].path = << <<"a">> >>
    /\ Log[2].op = "write" /\ Log[2].slot = <<1>>
    /\ conf.f[1] = StringV(document.m[<<"a">>].raw)

-----------------------------------------------------------------------------
(* C8 *)

\* v is a chain of exactly n non-nil pointers around a value that is no
\* pointer.
RECURSIVE IsChain(_, _)
IsChain(v, n) ==
    IF n = 0 THEN v.k \notin {"ptr", "nil"}
    ELSE v.k = "ptr" /\ IsChain(v.elem, n - 1)

\* The value the JSON text of a node stands for, in a field of a kind.
Decoded(kind, raw) ==
    CASE kind = "string" -> StringV(raw)
      [] kind = "int" /\ raw = <<"7">> -> IntV(7)
      [] kind = "bool" /\ raw = <<"t", "r", "u", "e">> -> BoolV(TRUE)
      [] kind = "bool" /\ raw = <<"f", "a", "l", "s", "e">> -> BoolV(FALSE)
      [] OTHER -> NilV

\* The slots whose field is of a non-struct type.
LeafSlots == { s \in Slots(confType) : FieldAt(confType, s).kind # "struct" }

\* C8: a field of indirection depth N over a non-struct type that is
\* assigned from a present JSON value receives a chain of exactly N non-nil
\* pointers, all newly allocated (none was in the struct before the call,
\* none is shared with another assignment), whose innermost element is the
\* decoded value; for N = 0 the decoded value itself.  After a successful
\* bind the field holds that chain, and a field whose JSON value is absent
\* holds what it held before the call.
C8_PointerChainOfDeclaredDepth ==
    \A s \in LeafSlots :
        LET field == FieldAt(confType, s)
        IN  /\ \A j \in EventsAt(s) \cap Writes :
                  LET v == Log[j].val
                  IN  /\ IsChain(v, field.depth)
                      /\ Cardinality(Addrs(v)) = field.depth
                      /\ Addrs(v) \cap Addrs(confBefore) = {}
                      /\ \A k \in Writes \ {j} :
                            Len(Log[k].slot) >= Len(s) =>
                                Addrs(v) \cap Addrs(Log[k].val) = {}
                      /\ j > 1 /\ Log[j - 1].op = "found" /\ Log[j - 1].slot = s
                      /\ (field.kind \in {"string", "int", "bool"}
                            /\ field.hook = NoHooks) =>
                             Deref(v) = Decoded(field.kind,
                                                Get(document, Log[j - 1].path).node.raw)
                      /\ Deref(v) # NilV
            /\ (Returned /\ result.err = NoError) =>
                  \A j \in EventsAt(s) :
                      /\ Log[j].op = "found" =>
                            /\ j + 1 \in EventsAt(s) \cap Writes
                            /\ ValueAt(conf, confType, s) = Log[j + 1].val
                      /\ Log[j].op = "notfound" =>
                            ValueAt(conf, confType, s) = ValueAt(confBefore, confType, s)

\* FieldA is **int and pointed to an old value; the document has 7 under
\* "a"; FieldA now holds two new pointers around 7.
C8_Witness ==
    /\ Returned /\ result.err = NoError
    /\ confType[1].depth = 2 /\ confType[1].kind = "int"
    /\ Deref(confBefore.f[1]) = IntV(5)
    /\ conf.f[1].k = "ptr" /\ conf.f[1].elem.k = "ptr"
    /\ conf.f[1].elem.elem = IntV(7)
    /\ {conf.f[1].addr, conf.f[1].elem.addr} \cap Addrs(confBefore) = {}
    /\ conf.f[1].addr # conf.f[1].elem.addr

-----------------------------------------------------------------------------
(* C9 *)

\* The slots whose field is of a struct type without decode hooks.
StructSlots ==
    { s \in Slots(confType) :
        FieldAt(confType, s).kind = "struct" /\ FieldAt(confType, s).hook = NoHooks }

\* C9: a nested struct is assigned to its parent field only if the
\* recursive call on it reported that a field was set.  Otherwise (no node
\* under the key, an empty object, or an object with none of the nested
\* struct's keys) the parent field is left exactly as it was, a nil pointer
\* of any depth stays nil, and the field does not set the parent's flag.
C9_SubStructAttachedOnlyIfSet ==
    \A s \in StructSlots :
        /\ \A j \in EventsAt(s) \cap Writes :
              /\ j > 1
              /\ Log[j - 1].op = "substruct" /\ Log[j - 1].slot = s
              /\ Log[j - 1].flag
        /\ \A j \in EventsAt(s) :
              (Log[j].op = "substruct" /\ ~Log[j].flag) =>
                  /\ EventsAt(s) \cap Writes = {}
                  /\ Log[j].set = Log[j].was
                  /\ Log[j].val = ValueAt(confBefore, confType, s)
                  /\ ValueAt(conf, confType, s) = ValueAt(confBefore, confType, s)
        /\ \A j \in EventsAt(s) :
              Log[j].op = "notfound" =>
                  /\ EventsAt(s) = {j}
                  /\ Log[j].set = Log[j].was
                  /\ ValueAt(conf, confType, s) = ValueAt(confBefore, confType, s)

\* FieldB is a nil pointer to a struct; the document has an empty object
\* under "b"; the bind succeeded and FieldB is still nil.
C9_Witness ==
    /\ Returned /\ result.err = NoError
    /\ confType[2].kind = "struct" /\ confType[2].depth >= 1
    /\ confBefore.f[2] = NilV
    /\ <<"b">> \in DOMAIN document.m
    /\ document.m[<<"b">>].t = "Object"
    /\ DOMAIN document.m[<<"b">>].m = {}
    /\ \E j \in EventsAt(<<2>>) : Log[j].op = "substruct" /\ ~Log[j].flag
    /\ conf.f[2] = NilV

-----------------------------------------------------------------------------
(* C10 *)

\* C10 as stated: for a struct-typed field of any indirection depth whose
\* value is not empty and whose key has a node, the binder recurses into the
\* existing nested struct (it goes through its fields), and after a
\* successful bind every nested field without a node holds what it held
\* before the call and every nested field with a node holds the newly
\* decoded value.
C10_RecursesIntoExistingStruct ==
    \A s \in StructSlots :
        \A j \in EventsAt(s) :
            (Log[j].op = "found" /\ ~IsZero(ValueAt(confBefore, confType, s))) =>
                /\ EventsAt(Append(s, 1)) # {}
                /\ (Returned /\ result.err = NoError) =>
                      \A i \in 1..Len(FieldAt(confType, s).elem) :
                          \A k \in EventsAt(Append(s, i)) :
                              /\ Log[k].op = "notfound" =>
                                    ValueAt(conf, confType, Append(s, i))
                                        = ValueAt(confBefore, confType, Append(s, i))
                              /\ Log[k].op = "write" =>
                                    ValueAt(conf, confType, Append(s, i)) = Log[k].val

-----------------------------------------------------------------------------
(* C11 *)

\* The slots of the usable fields of a complex type.
ComplexSlots ==
    { s \in Slots(confType) :
        /\ FieldAt(confType, s).kind \in {"complex64", "complex128"}
        /\ ~LeftOut(FieldAt(confType, s)) }

\* The last step that is no return from a nested struct.
LastLookup ==
    CHOOSE j \in 0..Len(Log) :
        /\ j > 0 => Log[j].op # "substruct"
        /\ \A k \in (j + 1)..Len(Log) : Log[k].op = "substruct"

\* C11 as stated: binding a record that has a usable field of a complex
\* type always fails with the unsupported-type error, regardless of the
\* content of the document.
C11_ComplexAlwaysUnsupported ==
    (Returned /\ Bound /\ ComplexSlots # {})
        => result.err.e = "ErrUnsupportedFieldType"

\* C11, amended: a usable field of a complex type (64 or 128 bit, at any
\* indirection depth) fails the bind with the unsupported-type error
\* whenever the binder reaches it and the document has a node under its
\* key, whatever that node is; the field is never written.  When the
\* document has no node under its key the field is passed over like any
\* absent field and raises no error.
C11_ComplexUnsupportedWhenFound ==
    \A s \in ComplexSlots :
        /\ EventsAt(s) \cap Writes = {}
        /\ ValueAt(conf, confType, s) = ValueAt(confBefore, confType, s)
        /\ \A j \in EventsAt(s) :
              /\ Log[j].op \in {"found", "notfound"}
              /\ Log[j].op = "found" =>
                    /\ j = LastLookup
                    /\ Returned /\ ~result.loaded
                    /\ result.err.e = "ErrUnsupportedFieldType"
                    /\ result.err.field = FieldAt(confType, s).name
              /\ Log[j].op = "notfound" =>
                    /\ result.err.e # "ErrUnsupportedFieldType"
                    /\ j = Len(Log) => result.err = NoError

\* FieldE is a *complex128 and the document has null under "e": the bind
\* failed with the unsupported-type error.
C11_Witness ==
    /\ Returned
    /\ confType[1].kind = "complex128" /\ confType[1].depth = 1
    /\ <<"e">> \in DOMAIN document.m
    /\ document.m[<<"e">>] = JNull
    /\ result.err.e = "ErrUnsupportedFieldType"
    /\ result.err.field = "FieldE"

-----------------------------------------------------------------------------
(* C12 *)

\* The slots of the usable fields of a kind that have no decode hooks.
PlainSlots(kinds) ==
    { s \in Slots(confType) :
        /\ FieldAt(confType, s).kind \in kinds
        /\ FieldAt(confType, s).hook = NoHooks
        /\ ~LeftOut(FieldAt(confType, s)) }

\* The node the binder found in step j.
NodeOf(j) == Get(document, Log[j].path).node

\* Step j found a node for its field and the bind ended there with the
\* parse-value error, the field unwritten.
FailsWithParseValue(j) ==
    /\ j = LastLookup
    /\ Log[j].slot \notin { Log[k].slot : k \in Writes }
    /\ Returned /\ ~result.loaded
    /\ result.err.e = "ErrParseValue"

\* C12 as stated: a boolean field accepts only a literal JSON boolean: a
\* node true/false sets the field to that value, and a String node ("cheese",
\* and also "true") fails the bind with the parse-value error and leaves the
\* field unwritten.
C12_BoolOnlyFromLiteralBoolean ==
    \A s \in PlainSlots({"bool"}) :
        \A j \in EventsAt(s) :
            Log[j].op = "found" =>
                /\ NodeOf(j).t = "Boolean" =>
                      /\ j + 1 \in EventsAt(s) \cap Writes
                      /\ Deref(Log[j + 1].val)
                            = BoolV(NodeOf(j).raw = <<"t", "r", "u", "e">>)
                /\ NodeOf(j).t = "String" => FailsWithParseValue(j)

-----------------------------------------------------------------------------
(* C13 *)

\* Step j found a node and the next step stored value v, wrapped to the
\* field's indirection depth.
Stores(j, v) ==
    /\ j + 1 \in EventsAt(Log[j].slot) \cap Writes
    /\ Deref(Log[j + 1].val) = v

\* A field of the duration type reads a String node as a duration literal
\* and a Number node as a number of nanoseconds.
DurationReadsLiterals ==
    \A s \in PlainSlots({"duration"}) :
        \A j \in EventsAt(s) :
            Log[j].op = "found" =>
                /\ NodeOf(j).t = "String" =>
                      LET d == ParseDuration(ParseString(NodeOf(j).raw).v)
                      IN  IF d.ok THEN Stores(j, d.v)
                          ELSE FailsWithParseValue(j)
                /\ NodeOf(j).t = "Number" =>
                      IF IsIntLiteral(NodeOf(j).raw)
                      THEN Stores(j, Nanoseconds(IntLiteral(NodeOf(j).raw)))
                      ELSE FailsWithParseValue(j)

\* A field of a plain 64-bit integer type reads a Number node as a number.
Int64ReadsNumbers ==
    \A s \in PlainSlots({"int64"}) :
        \A j \in EventsAt(s) :
            (Log[j].op = "found" /\ NodeOf(j).t = "Number") =>
                IF IsIntLiteral(NodeOf(j).raw)
                THEN Stores(j, IntV(IntLiteral(NodeOf(j).raw)))
                ELSE FailsWithParseValue(j)

\* C13 as stated: for a field of the duration type a String node is parsed
\* as a duration literal, a valid one yielding that duration ("10s" yields
\* ten seconds) and an invalid one the parse-value error; a Number node for
\* a duration field and any node for a plain 64-bit integer go through the
\* generic numeric decoding, so a String node for a plain 64-bit integer is
\* an error and is never read as a duration.
C13_DurationLiteralOnlyForDurationType ==
    /\ DurationReadsLiterals
    /\ Int64ReadsNumbers
    /\ \A s \in PlainSlots({"int64"}) :
          \A j \in EventsAt(s) :
              (Log[j].op = "found" /\ NodeOf(j).t = "String") =>
                  FailsWithParseValue(j)

-----------------------------------------------------------------------------
(* C14 *)

\* The slots of the usable fields whose type has an UnmarshalJSON method.
JSONHookSlots ==
    { s \in Slots(confType) :
        /\ FieldAt(confType, s).hook.json # "none"
        /\ ~LeftOut(FieldAt(confType, s)) }

\* C14: a field whose type, all pointers removed, has a JSON decode hook is
\* decoded by that hook whatever its kind (struct, string or integer) and
\* whatever the node: no nested field is visited and no text hook is asked.
\* The hook receives the node's bytes, between double quotes exactly when
\* the node is a String and as they are otherwise; when it succeeds the
\* field holds the hook's result behind as many new pointers as its type has,
\* and when it fails the bind fails with the parse-value error for the
\* field's path and the field is not written.
C14_JSONHookBeforeKindDispatch ==
    \A s \in JSONHookSlots :
        LET field == FieldAt(confType, s)
        IN  /\ \A t \in Slots(confType) :
                  (Len(t) > Len(s) /\ SubSeq(t, 1, Len(s)) = s) => EventsAt(t) = {}
            /\ \A j \in EventsAt(s) :
                  Log[j].op = "found" =>
                      IF field.hook.json = "store"
                      THEN /\ j + 1 \in EventsAt(s) \cap Writes
                           /\ EventsAt(s) = {j, j + 1}
                           /\ IsChain(Log[j + 1].val, field.depth)
                           /\ Addrs(Log[j + 1].val) \cap Addrs(confBefore) = {}
                           /\ Deref(Log[j + 1].val).by = "json"
                           /\ Deref(Log[j + 1].val).data
                                = IF NodeOf(j).t = "String"
                                  THEN <<"\"">> \o NodeOf(j).raw \o <<"\"">>
                                  ELSE NodeOf(j).raw
                           /\ (Returned /\ result.err = NoError) =>
                                  ValueAt(conf, confType, s) = Log[j + 1].val
                      ELSE /\ EventsAt(s) = {j}
                           /\ j = LastLookup
                           /\ Returned /\ ~result.loaded
                           /\ result.err = newUnmarshalError(Log[j].path)
                           /\ ValueAt(conf, confType, s)
                                = ValueAt(confBefore, confType, s)

\* FieldE is a pointer to an integer type with a JSON hook and the document
\* has the string "7" under "e": the hook was given "7" with its quotes and
\* FieldE points to what it made of it.
C14_Witness ==
    /\ Returned /\ result.err = NoError
    /\ confType[1].hook.json = "store"
    /\ confType[1].kind = "int64" /\ confType[1].depth = 1
    /\ <<"e">> \in DOMAIN document.m
    /\ document.m[<<"e">>] = JString(<<"7">>)
    /\ conf.f[1].k = "ptr"
    /\ conf.f[1].elem = CustomV("json", <<"\"", "7", "\"">>)

-----------------------------------------------------------------------------
(* C15 *)

\* The slots of the usable fields whose type has an UnmarshalText method and
\* no UnmarshalJSON method.
TextHookSlots ==
    { s \in Slots(confType) :
        /\ FieldAt(confType, s).hook.json = "none"
        /\ FieldAt(confType, s).hook.text # "none"
        /\ ~LeftOut(FieldAt(confType, s)) }

\* For a node that is no String the text hook is not called: the field is
\* handled as its kind is, a struct by the recursive call and any other kind
\* by the conversion of its kind.
TextHookOnlyForStrings ==
    \A s \in TextHookSlots :
        LET field == FieldAt(confType, s)
        IN  \A j \in EventsAt(s) :
                (Log[j].op = "found" /\ NodeOf(j).t # "String") =>
                    /\ \A k \in EventsAt(s) \cap Writes :
                          "by" \notin DOMAIN Deref(Log[k].val)
                    /\ field.kind = "struct" =>
                          \/ EventsAt(Append(s, 1)) # {}
                          \/ result.status = "panicked"
                    /\ field.kind # "struct" =>
                          LET c == convert(field, NodeOf(j), Log[j].path)
                          IN  IF c.r = "ok" THEN Stores(j, c.v)
                              ELSE j = LastLookup /\ result.err = c.err

\* C15 as stated: when the type of a field has a text decode hook and no
\* JSON hook, the binder unescapes a String node and hands the unescaped
\* text to the hook, a failure of the hook being the parse-value error; for
\* a node of any other type the hook is not called and the field is handled
\* as its kind is.
C15_TextHookGetsUnescapedString ==
    /\ TextHookOnlyForStrings
    /\ \A s \in TextHookSlots :
          LET field == FieldAt(confType, s)
          IN  \A j \in EventsAt(s) :
                  (Log[j].op = "found" /\ NodeOf(j).t = "String") =>
                      IF field.hook.text = "store"
                      THEN /\ j + 1 \in EventsAt(s) \cap Writes
                           /\ IsChain(Log[j + 1].val, field.depth)
                           /\ Deref(Log[j + 1].val).by = "text"
                           /\ Deref(Log[j + 1].val).data
                                = ParseString(NodeOf(j).raw).v
                      ELSE /\ j = LastLookup
                           /\ Returned /\ ~result.loaded
                           /\ result.err = newUnmarshalError(Log[j].path)

-----------------------------------------------------------------------------
(* C16 *)

\* Whether n is a value of an integer kind: of 8 or 16 bits, signed or not;
\* every number of the documents is one of int and int64.
Fits(kind, n) ==
    CASE kind = "int8" -> n >= 0 - 2^7 /\ n <= 2^7 - 1
      [] kind = "int16" -> n >= 0 - 2^15 /\ n <= 2^15 - 1
      [] kind = "uint8" -> n >= 0 /\ n <= 2^8 - 1
      [] OTHER -> TRUE

\* Step j found a node and the bind ended there with an error, the field
\* unwritten.
FailsWithError(j) ==
    /\ j = LastLookup
    /\ Log[j].slot \notin { Log[k].slot : k \in Writes }
    /\ Returned /\ ~result.loaded
    /\ result.err # NoError

\* An integer field takes a Number node that is an integer numeral within
\* the range of its type as exactly that number, and a Number node that is
\* out of range or no integer numeral as an error.
IntegerReadsNumbersInRange ==
    \A s \in PlainSlots(IntKinds) :
        LET field == FieldAt(confType, s)
        IN  \A j \in EventsAt(s) :
                (Log[j].op = "found" /\ NodeOf(j).t = "Number") =>
                    IF IsIntLiteral(NodeOf(j).raw)
                       /\ Fits(field.kind, IntLiteral(NodeOf(j).raw))
                    THEN Stores(j, IntV(IntLiteral(NodeOf(j).raw)))
                    ELSE FailsWithError(j)

\* C16 as stated: an integer field of any width, signed or unsigned, takes a
\* Number node within the range of its type as exactly that value, the
\* smallest and the largest of the type included; a node whose value is out
\* of range or whose content is no integer numeral fails the bind with an
\* error, and no truncated or wrapped value is ever stored.
C16_IntegerRangeExact ==
    /\ IntegerReadsNumbersInRange
    /\ \A s \in PlainSlots(IntKinds) :
          LET field == FieldAt(confType, s)
          IN  \A j \in EventsAt(s) :
                  Log[j].op = "found" =>
                      /\ ~IsIntLiteral(NodeOf(j).raw) => FailsWithError(j)
                      /\ \A k \in EventsAt(s) \cap Writes :
                            /\ IsIntLiteral(NodeOf(j).raw)
                            /\ Fits(field.kind, IntLiteral(NodeOf(j).raw))
                            /\ Deref(Log[k].val) = IntV(IntLiteral(NodeOf(j).raw))

-----------------------------------------------------------------------------
(* C17 *)

\* A string field rejects every node that is no String.
StringRejectsOtherNodes ==
    \A s \in PlainSlots({"string"}) :
        \A j \in EventsAt(s) :
            (Log[j].op = "found" /\ NodeOf(j).t # "String") =>
                FailsWithParseValue(j)

\* C17 as stated: whenever the node found for a usable field is of a type
\* that does not go with the type of the field, the bind fails with an
\* error: a node that is no String on a string field, a String node on a
\* boolean or numeric field, and a String, Number, Boolean or Array node on
\* a field of a struct type.
C17_IncompatibleNodeIsFatal ==
    /\ StringRejectsOtherNodes
    /\ \A s \in PlainSlots({"bool"} \cup IntKinds) :
          \A j \in EventsAt(s) :
              (Log[j].op = "found" /\ NodeOf(j).t = "String") => FailsWithError(j)
    /\ \A s \in PlainSlots({"struct"}) :
          \A j \in EventsAt(s) :
              (Log[j].op = "found"
                 /\ NodeOf(j).t \in {"String", "Number", "Boolean", "Array"}) =>
                  /\ Returned /\ ~result.loaded
                  /\ result.err # NoError

-----------------------------------------------------------------------------
(* C18 *)

\* Slot s comes before slot t in declaration order, a struct before the
\* fields nested in it.
SlotBefore(s, t) ==
    \/ Len(s) < Len(t) /\ SubSeq(t, 1, Len(s)) = s
    \/ \E i \in 1..Len(s) :
          /\ i <= Len(t)
          /\ SubSeq(s, 1, i - 1) = SubSeq(t, 1, i - 1)
          /\ s[i] < t[i]

\* The first steps of the iterations, in the order taken.
LookupSteps == { j \in 1..Len(Log) : Log[j].op \in Lookups }

\* Step j is one at which the iteration on its field ends with an error: no
\* key, a lookup error, or a node that no write and no recursive call
\* follows.
FailingStep(j) ==
    \/ Log[j].op \in {"nokey", "geterror"}
    \/ /\ Log[j].op = "found"
       /\ j < Len(Log) => Log[j + 1].op = "substruct"
       /\ j = Len(Log) \/ Log[j + 1].slot # Log[j].slot

\* C18: the fields are gone through in declaration order, each once, and
\* in a bind that returns the first step that fails ends it: after it only the
\* recursive calls of the enclosing struct fields return, no field declared
\* after the failing one, in its struct or in an enclosing one, is looked up
\* or written, and the error Parse returns is the error of that step.  A bind
\* that ends without an error has gone through every field of the struct.
C18_FirstErrorAborts ==
    /\ \A j, k \in LookupSteps : j < k => SlotBefore(Log[j].slot, Log[k].slot)
    /\ \A j \in 1..Len(Log) :
          (Returned /\ FailingStep(j)) =>
              /\ j = LastLookup
              /\ result.err # NoError
              /\ \A k \in (j + 1)..Len(Log) :
                    /\ Log[k].op = "substruct"
                    /\ SlotBefore(Log[k].slot, Log[j].slot)
              /\ \A t \in Slots(confType) :
                    SlotBefore(Log[j].slot, t) =>
                        /\ { k \in EventsAt(t) : Log[k].op # "substruct" } = {}
                        /\ ValueAt(conf, confType, t) = ValueAt(confBefore, confType, t)
              /\ ~result.loaded
              /\ IF result.err.field # ""
                 THEN result.err.field = FieldAt(confType, Log[j].slot).name
                 ELSE result.err.path = Log[j].path
    /\ (Returned /\ Bound /\ result.err # NoError) =>
          (LastLookup > 0 /\ FailingStep(LastLookup))
    /\ (Returned /\ Bound /\ result.err = NoError) =>
          \A i \in 1..Len(confType) :
              \E j \in LookupSteps : Log[j].slot = <<i>>

\* FieldB is a struct with an int FieldC, FieldA comes after it, and the
\* document has "x" under "a" and a string that is no number under "b"."c":
\* the bind failed at FieldC and FieldA, declared after FieldB, was neither
\* looked up nor written.
C18_Witness ==
    /\ Returned /\ result.err.e = "ErrParseValue"
    /\ Len(confType) = 2
    /\ confType[1].kind = "struct" /\ confType[1].elem[1].kind = "int"
    /\ confType[2].name = "FieldA"
    /\ <<"a">> \in DOMAIN document.m
    /\ \E j \in EventsAt(<<1, 1>>) : Log[j].op = "found" /\ j = LastLookup
    /\ EventsAt(<<1, 2>>) = {} /\ EventsAt(<<2>>) = {}
    /\ conf.f[2] = confBefore.f[2]

-----------------------------------------------------------------------------
(* C19 *)

\* The writes of values that are no struct: the assignments of leaf fields.
LeafWrites == { j \in Writes : FieldAt(confType, Log[j].slot).kind # "struct"
                               \/ FieldAt(confType, Log[j].slot).hook # NoHooks }

\* The leaf fields assigned at the top level keep their values when the
\* bind ends with an error.
TopLevelWritesKept ==
    (Returned /\ result.err # NoError) =>
        \A j \in LeafWrites :
            Len(Log[j].slot) = 1 =>
                ValueAt(conf, confType, Log[j].slot) = Log[j].val

\* The leaf fields assigned inside a nested struct that was not empty
\* before the call keep their values when the bind ends with an error.
ExistingNestedWritesKept ==
    (Returned /\ result.err # NoError) =>
        \A j \in LeafWrites :
            (Len(Log[j].slot) > 1
               /\ ~IsZero(ValueAt(confBefore, confType, Parent(Log[j].slot)))) =>
                ValueAt(conf, confType, Log[j].slot) = Log[j].val

\* C19 as stated: after a bind that ends with an error nothing is rolled
\* back: every leaf field assigned before the error, at the top level or
\* inside a nested struct, whether that struct existed before the call or
\* was absent, still holds the assigned value in the caller's struct.
C19_NoRollbackOfAssignedLeaves ==
    (Returned /\ result.err # NoError) =>
        \A j \in LeafWrites :
            ValueAt(conf, confType, Log[j].slot) = Log[j].val

-----------------------------------------------------------------------------
(* C20 *)

\* Parse returned one of the two errors of verify.
Misconfigured ==
    result.err.e \in {"ErrNoDataSourceSpecified", "ErrMultipleDataSourcesSpecified"}

\* Whenever Parse returns an error of verify it has read no file, read and
\* closed no stream, and left the target as it was.
VerifyErrorBeforeAnyRead ==
    (Returned /\ Misconfigured) =>
        /\ result.stage = "verify"
        /\ result.io = <<>>
        /\ ~result.loaded
        /\ result.log = <<>>
        /\ conf = confBefore

\* C20 as stated: a source misconfiguration error is raised before any byte
\* is acquired: when no data source or more than one is configured, Parse
\* returns without reading the file at the configured path, without reading
\* from or closing the configured stream, and without touching the target.
C20_MisconfigurationBeforeAnyRead ==
    /\ VerifyErrorBeforeAnyRead
    /\ (Returned /\ Cardinality(called) # 1) =>
          /\ result.io = <<>>
          /\ result.log = <<>>
          /\ conf = confBefore

-----------------------------------------------------------------------------
(* C22 *)

\* Slot t is nested, at any depth, in the struct at slot s.
Below(s, t) == Len(t) > Len(s) /\ SubSeq(t, 1, Len(s)) = s

\* C22: during one bind no field is set more than once, and a field is set
\* only after a node was found at its path; a field of a struct type that
\* is decoded field by field is set only if a field nested in it was found
\* and set before.
C22_SlotWrittenOnceAndOnlyIfFound ==
    \A s \in Slots(confType) :
        /\ Cardinality(EventsAt(s) \cap Writes) <= 1
        /\ \A j \in EventsAt(s) \cap Writes :
              /\ \E k \in EventsAt(s) :
                    /\ k < j /\ Log[k].op = "found"
                    /\ Get(document, Log[k].path).r = "found"
              /\ s \in StructSlots =>
                    \E t \in Slots(confType) :
                        /\ Below(s, t)
                        /\ FieldAt(confType, t).kind # "struct"
                        /\ \E k, m \in EventsAt(t) :
                              /\ k < m /\ m < j
                              /\ Log[k].op = "found" /\ Log[m].op = "write"

\* FieldB is a struct, the document has "x" under "b"."c": FieldC was found
\* and set, then FieldB was set, each once.
C22_Witness ==
    /\ Returned /\ result.err = NoError
    /\ Len(confType) = 2 /\ confType[2].kind = "struct"
    /\ confType[2].hook = NoHooks
    /\ Cardinality(EventsAt(<<2, 1>>) \cap Writes) = 1
    /\ Cardinality(EventsAt(<<2>>) \cap Writes) = 1
    /\ \A j \in EventsAt(<<2>>) \cap Writes :
          \A k \in EventsAt(<<2, 1>>) \cap Writes : k < j

-----------------------------------------------------------------------------
(* C23 *)

\* The leaf fields nested in the struct at slot s that hold, in the
\* caller's struct after the call, a value the call assigned to them.
AssignedBelow(s) ==
    { t \in Slots(confType) :
        /\ Below(s, t)
        /\ \E j \in EventsAt(t) \cap LeafWrites :
              ValueAt(conf, confType, t) = Log[j].val }

\* The flag of the call at the top level says whether a leaf field was
\* assigned.
TopLevelFlagIffLeafWritten ==
    (Returned /\ Bound) => (result.set <=> LeafWrites # {})

\* C23 as stated: the flag every bind call returns, the nested ones
\* included, on success and on error, is true if and only if at least one
\* leaf field of the struct it went through was assigned into the struct
\* the caller can reach.
C23_FlagIffLeafAssignedInCallersRecord ==
    /\ (Returned /\ Bound) =>
          (result.set <=>
              \E j \in LeafWrites : ValueAt(conf, confType, Log[j].slot) = Log[j].val)
    /\ Returned =>
          \A s \in StructSlots :
              \A j \in EventsAt(s) :
                  Log[j].op = "substruct" =>
                      (Log[j].flag <=> AssignedBelow(s) # {})

-----------------------------------------------------------------------------
(* C24 *)

\* A Parse call that does not return has found a null node for a boolean,
\* integer or duration field, or a node for a struct field that is not empty
\* and lies behind two or more pointers.
ReturnsWithoutDeepPointersAndNull ==
    (result.status = "panicked") =>
        \E j \in 1..Len(Log) :
            /\ Log[j].op = "found"
            /\ \/ /\ FieldAt(confType, Log[j].slot).kind \in {"bool", "duration"} \cup IntKinds
                  /\ NodeOf(j).t = "Null"
               \/ /\ FieldAt(confType, Log[j].slot).kind = "struct"
                  /\ FieldAt(confType, Log[j].slot).depth >= 2
                  /\ ~IsZero(ValueAt(confBefore, confType, Log[j].slot))

\* C24 as stated: every bind ends in success or in a returned error; for
\* no node of any type, no kind of field, no indirection depth and no value
\* the field held before does the binder crash, and in particular not for a
\* null node on a numeric or boolean field nor for a struct field of
\* indirection depth 2 or more that is not empty.
C24_BindAlwaysReturns ==
    result.status # "panicked"

-----------------------------------------------------------------------------
(* C25 *)

\* The one source that verification lets through fails to deliver its
\* bytes for another reason than a missing file: the path is a directory,
\* or the read of the stream fails.
SourceBroken ==
    /\ ~NonEmpty(bytes)
    /\ \/ path = "./" /\ reader = NilReader
       \/ path = "" /\ reader.kind = "fail"

\* C25: when the bytes cannot be acquired for another reason than a missing
\* source (the path names a directory, the read of the stream fails), Parse
\* returns that error with loaded = false, with and without Must, and leaves
\* the target alone; the source-not-found outcome, an error with Must and a
\* silent return without it, arises only from a not-exist failure.
C25_OtherReadErrorsAlwaysReturned ==
    Returned =>
        /\ SourceBroken =>
              /\ result.stage = "getBytes"
              /\ ~result.loaded
              /\ result.err.e = (IF path = "./" THEN "EISDIR" ELSE "read failed")
              /\ result.log = <<>>
              /\ conf = confBefore
        /\ result.err.e = "ErrSourceNotFound" => (SourceMissing /\ must)
        /\ (result.stage = "getBytes" /\ result.err = NoError) =>
              (SourceMissing /\ ~must)

\* Parse ran without Must on a stream whose read fails and returned the
\* error of the read.
C25_Witness ==
    /\ Returned /\ SourceBroken /\ ~must
    /\ reader.kind = "fail"
    /\ result.err.e = "read failed" /\ ~result.loaded

-----------------------------------------------------------------------------
(* C26 *)

\* C26: when the data source is a stream and Parse gets past verify, the
\* stream is read once and then, if it has a Close method, closed once, the
\* read having succeeded or failed; both happen in getBytes, before the
\* binder takes its first step, and a stream without a Close method is only
\* read.
C26_StreamClosedOnceAfterRead ==
    (Returned /\ result.stage # "verify" /\ reader # NilReader) =>
        /\ result.io = (IF reader.closer THEN <<"ReadAll", "Close">>
                        ELSE <<"ReadAll">>)
        /\ result.log # <<>> => (result.stage = "parse" /\ reader.kind = "data")
        /\ reader.kind # "data" => (result.stage = "getBytes" /\ result.log = <<>>)

\* Parse ran on a stream with a Close method whose read fails: the stream
\* was read, then closed, and the binder did not run.
C26_Witness ==
    /\ Returned /\ result.stage = "getBytes"
    /\ reader.kind = "fail" /\ reader.closer
    /\ result.io = <<"ReadAll", "Close">>
    /\ result.err.e = "read failed"

-----------------------------------------------------------------------------
(* C27 *)

\* C27: Parse never returns loaded = true together with an error: an error
\* of verify, of the acquisition of the bytes or of the binder comes with
\* loaded = false, also when the binder had set a field before it failed.
C27_NeverLoadedWithError ==
    Returned =>
        /\ result.loaded => result.err = NoError
        /\ result.err # NoError => ~result.loaded
        /\ result.stage \in {"verify", "getBytes"} => ~result.loaded

\* The binder set FieldA and failed on FieldB: Parse returned the error with
\* loaded = false.
C27_Witness ==
    /\ Returned /\ result.stage = "parse"
    /\ result.set /\ Writes # {}
    /\ result.err.e = "ErrParseValue"
    /\ ~result.loaded

-----------------------------------------------------------------------------
(* C28 *)

\* The resolved keys of the fields from the root struct down to the field at
\* a slot: those of the enclosing struct fields, then the field's own.
ResolvedPath(slot) ==
    [n \in 1..Len(slot) |->
        extractJSONKey(FieldAt(confType, SubSeq(slot, 1, n))).key]

\* C28: The path of every node lookup is the resolved keys of the enclosing
\* struct fields, from the root down, followed by the field's own key; the
\* path of a struct field still reads so once its nested struct has been
\* processed, and the path attached to an error is that of the field the
\* binder failed on.
C28_PathIsKeysOfEnclosingFieldsThenOwn ==
    Bound =>
        /\ \A j \in 1..Len(Log) :
              Log[j].op \in {"notfound", "geterror", "found", "substruct"} =>
                  Log[j].path = ResolvedPath(Log[j].slot)
        /\ (result.err.path # <<>>
               \/ (result.err.e = "ErrParseValue" /\ result.err.field = "")) =>
              /\ LastLookup > 0
              /\ result.err.path = ResolvedPath(Log[LastLookup].slot)

\* The arrays the paths of the last Parse call were built in.
PathArrays ==
    parse(bytes, NilPath, confType, confBefore, <<>>,
          SetMax(Addrs(confBefore)) + 1, <<>>, <<>>).heap

\* Four structs deep the field after a nested struct failed with its own
\* path, after a field of that nested struct had been looked up and set
\* under the longer path; the key of the failing field was stored in the
\* array of its parent's path, over the key of the nested struct.
C28_Witness ==
    /\ \E a \in 1..Len(PathArrays) :
          PathArrays[a] = <<<<"n">>, <<"b">>, <<"b">>, <<"d">>>>
    /\ Len(PathArrays)
         < Cardinality({ j \in 1..Len(Log) :
                           Log[j].op \in {"notfound", "geterror", "found"} })
    /\ Returned /\ Bound
    /\ result.err.e = "ErrParseValue"
    /\ result.err.path = <<<<"n">>, <<"b">>, <<"b">>, <<"d">>>>
    /\ \E j \in 1..Len(Log) :
          /\ Log[j].op = "found"
          /\ Log[j].path = <<<<"n">>, <<"b">>, <<"b">>, <<"b">>, <<"c">>>>
    /\ \E j \in Writes : Len(Log[j].slot) = 5

-----------------------------------------------------------------------------
(* C29 *)

\* The lookups of the log that went to the document with a path.
PathLookups ==
    { j \in 1..Len(Log) : Log[j].op \in {"notfound", "geterror", "found"} }

\* C29: Every segment of every path used for a node lookup is a non-empty
\* string, whatever the json tag and the key tag of the field: a tag
\* resolution that succeeds never yields an empty key.
C29_LookupSegmentsNeverEmpty ==
    Bound =>
        \A j \in PathLookups :
            \A n \in 1..Len(Log[j].path) : Log[j].path[n] # <<>>

\* An empty segment comes from a json tag that starts with a comma, and
\* from nothing else: every other lookup has non-empty segments.
EmptySegmentOnlyFromLeadingComma ==
    Bound =>
        \A j \in PathLookups :
            \A n \in 1..Len(Log[j].path) :
                Log[j].path[n] = <<>> =>
                    LET tag == FieldAt(confType, SubSeq(Log[j].slot, 1, n)).tag
                    IN  tag.json # <<>> /\ Head(tag.json) = ","

-----------------------------------------------------------------------------
(* C30 *)

EmptyContentWithPathReadsFile ==
    /\ Returned /\ bytes = EmptyBytes
    /\ path = "test.json" /\ reader = NilReader
    /\ result.io = <<"ReadFile">>
    /\ result.loaded /\ Writes # {}

-----------------------------------------------------------------------------
(* C21 *)

\* What the call of a goroutine comes to when it runs alone, on the source
\* as it was when the call began.
Alone(c) ==
    parseOutcome(tasks[c].given, document, confType, tasks[c].target)

\* A call has begun.
Began(c) == tasks[c].pc # "idle"

\* C21: Two Parse calls that run concurrently on one source, each with a
\* struct of its own, are independent: under every interleaving each call
\* that has begun ends with the results and the struct it ends with when
\* it runs alone, and the byte buffer and the configuration of the source
\* stay as they were when the call began.
C21_ConcurrentCallsIndependent ==
    \A c \in Callers :
        /\ Began(c) => Source = tasks[c].given
        /\ tasks[c].pc \in {"done", "crashed"} => tasks[c].out = Alone(c)
        /\ tasks[c].pc = "killed" => Alone(c).status = "panicked"

\* The calls do not write to the buffer or to the source, and a call that
\* comes to its end ends as it does alone; a call that does not come to
\* its end was under way when the other call panicked.
IndependentUnlessProgramCrashes ==
    \A c \in Callers :
        /\ Began(c) => Source = tasks[c].given
        /\ tasks[c].pc \in {"done", "crashed"} => tasks[c].out = Alone(c)
        /\ tasks[c].pc = "killed" =>
              \E d \in Callers \ {c} :
                  /\ tasks[d].pc = "crashed"
                  /\ tasks[d].out.status = "panicked"

\* Both calls shared the byte buffer, ran their field steps in turn and
\* returned, each having bound the document to its own struct.
BothBoundSharedBuffer ==
    /\ NonEmpty(bytes)
    /\ \A c \in Callers :
          /\ tasks[c].pc = "done"
          /\ tasks[c].out.stage = "parse"
          /\ tasks[c].out.loaded
          /\ Len(tasks[c].out.log) >= 2
    /\ tasks["one"].target # tasks["two"].target
    /\ tasks["one"].out.conf # tasks["two"].out.conf

====
